---- MODULE Spec2Model ----
(***************************************************************************)
(* A state-machine model of the GVM virtual machine (package gvm):         *)
(* the execution engine (execInstructions), the memory / active-segment    *)
(* view, the interrupt entry / resume discipline, the device response bus  *)
(* and the four built-in devices (system timer, power controller, memory   *)
(* management unit, console I/O).                                          *)
(*                                                                         *)
(* Representation of 32-bit words.  TLC integers are 32-bit signed, so a   *)
(* uint32 bit pattern v is represented by the integer congruent to v       *)
(* modulo 2^32 that lies in [-2^31, 2^31): 0xFFFFFFFF is -1, 0xFFFFFFF0 is *)
(* -16.  Memory holds bytes 0..255, so the byte image of every word is the *)
(* one the program produces.  All register arithmetic wraps modulo 2^32.   *)
(*                                                                         *)
(* Memory is the 65536-byte array of the VM; it is stored sparsely (only   *)
(* the non-zero bytes are kept), an absent address reads as 0.             *)
(***************************************************************************)
EXTENDS Integers, Sequences, FiniteSets, TLC

\* ------------------------------------------------------------------------
\* Program constants
\* ------------------------------------------------------------------------
varchBytes == 4
varchBytesx2 == 2 * varchBytes
varchBytesx3 == 3 * varchBytes
varchBytesx4 == 4 * varchBytes
instructionBytes == 8

maxInterrupts == 64
maxHWDevices == 16
maxRestrictedInterrupts == maxHWDevices + 24
maxPublicInterrupts == maxInterrupts - maxRestrictedInterrupts

reservedBytes == maxInterrupts * varchBytes
numRegisters == 32
numReservedRegisters == 8
heapSizeBytes == 65536

interruptsAddrRange == reservedBytes
hwInterruptAddrRange == maxHWDevices * varchBytes
restrictedInterruptsAddrRange == maxRestrictedInterrupts * varchBytes
publicInterruptsAddrRange == restrictedInterruptsAddrRange + maxPublicInterrupts * varchBytes

StatusDeviceNotFound == 0
StatusDeviceReady == 1
StatusDeviceBusy == 2

\* capacity of the response bus channel and of the console request queue
busCapacity == 1
charRequestsCapacity == 32
timerChanCapacity == 1

\* register indices
PC == 0
SP == 1
FP == 2
MODE == numRegisters

\* error codes (vm.errcode); "nil" is no pending error
errNil == "nil"
errSystemShutdown == "errSystemShutdown"
errSegmentationFault == "errSegmentationFault"
errDivisionByZero == "errDivisionByZero"
errUnknownInstruction == "errUnknownInstruction"
errIllegalInstruction == "errIllegalInstruction"
errIO == "errIO"

\* Maps from error code -> exception (interrupt) handler address
hardwareExceptionMap ==
    [e \in {errSegmentationFault, errDivisionByZero, errUnknownInstruction,
            errIllegalInstruction, errIO} |->
        CASE e = errSegmentationFault  -> hwInterruptAddrRange + 0 * varchBytes
          [] e = errDivisionByZero     -> hwInterruptAddrRange + 1 * varchBytes
          [] e = errUnknownInstruction -> hwInterruptAddrRange + 2 * varchBytes
          [] e = errIllegalInstruction -> hwInterruptAddrRange + 3 * varchBytes
          [] e = errIO                 -> hwInterruptAddrRange + 4 * varchBytes]

\* ------------------------------------------------------------------------
\* 32-bit arithmetic on representatives in [-2^31, 2^31)
\* ------------------------------------------------------------------------
Half == 256 * 256

\* (hi * 2^16 + lo) mod 2^32 for any small hi, lo
Wrap32(hi, lo) ==
    LET l == lo % Half
        h == (hi + (lo \div Half)) % Half
    IN  (IF h >= 32768 THEN h - Half ELSE h) * Half + l

Add32(a, b) == Wrap32((a \div Half) + (b \div Half), (a % Half) + (b % Half))
Sub32(a, b) == Wrap32((a \div Half) - (b \div Half), (a % Half) - (b % Half))

\* unsigned order on representatives: a negative representative is >= 2^31
ULess(a, b) == IF (a < 0) = (b < 0) THEN a < b ELSE b < 0

\* compares 2 32-bit numbers and returns -1 (x<y), 0 (x==y), or 1 (x>y);
\* less is the order of the operand type (unsigned or signed)
compare(x, y, unsigned) ==
    LET lt(a, b) == IF unsigned THEN ULess(a, b) ELSE a < b
    IN  IF lt(x, y) THEN -1 ELSE IF lt(y, x) THEN 1 ELSE 0

\* unsigned quotient and remainder, divisor not 0
UDivMod(x, y) ==
    IF y < 0
    THEN IF ULess(x, y) THEN [q |-> 0, r |-> x] ELSE [q |-> 1, r |-> Sub32(x, y)]
    ELSE IF x >= 0
    THEN [q |-> x \div y, r |-> x % y]
    ELSE LET xh == ((x \div 2) + 2147483647) + 1     \* x >> 1, logical
             b  == x % 2
             q0 == xh \div y
             r0 == xh % y
             extra == IF r0 >= y - r0 - b THEN 1 ELSE 0
         IN  [q |-> Add32(Add32(q0, q0), extra),
              r |-> IF extra = 1 THEN r0 - (y - r0 - b) ELSE 2 * r0 + b]

\* signed (truncated) remainder of int32 operands, divisor not 0
SRem(x, y) ==
    IF y = -1 THEN 0
    ELSE IF y = (-2147483647) - 1 THEN (IF x = y THEN 0 ELSE x)
    ELSE LET ay == IF y < 0 THEN -y ELSE y
             m  == x % ay
         IN  IF x >= 0 \/ m = 0 THEN m ELSE m - ay

\* arithRemi without its test of the divisor
arithRemiUnchecked(x, y, unsigned) == [val |-> 0, err |-> errNil]

arithRemi(x, y, unsigned) ==
    IF y = 0 THEN [val |-> 0, err |-> errDivisionByZero]
    ELSE [val |-> IF unsigned THEN UDivMod(x, y).r ELSE SRem(x, y), err |-> errNil]

\* ------------------------------------------------------------------------
\* Bytes and memory
\* ------------------------------------------------------------------------
\* Converts uint32 to a sequence of 4 bytes encoded as little endian
uint32ToBytes(u) ==
    << u % 256, (u \div 256) % 256, (u \div 65536) % 256, (u \div 16777216) % 256 >>

\* Converts 4 little-endian bytes to the uint32 they encode
uint32FromBytes(b) ==
    b[1] + 256 * b[2] + 65536 * b[3]
      + 16777216 * (IF b[4] >= 128 THEN b[4] - 256 ELSE b[4])

\* ------------------------------------------------------------------------
\* 32-bit multiplication, logic and shifts on representatives
\* ------------------------------------------------------------------------
RECURSIVE Pow2(_)
Pow2(n) == IF n = 0 THEN 1 ELSE 2 * Pow2(n - 1)

\* the number of bits of n >= 0
RECURSIVE BitLen(_)
BitLen(n) == IF n = 0 THEN 0 ELSE 1 + BitLen(n \div 2)

\* x * y modulo 2^32, from the products of the operands' bytes
Mul32(x, y) ==
    LET a  == uint32ToBytes(x)
        b  == uint32ToBytes(y)
        c0 == a[1] * b[1]
        c1 == a[1] * b[2] + a[2] * b[1] + (c0 \div 256)
        c2 == a[1] * b[3] + a[2] * b[2] + a[3] * b[1] + (c1 \div 256)
        c3 == a[1] * b[4] + a[2] * b[3] + a[3] * b[2] + a[4] * b[1] + (c2 \div 256)
    IN  uint32FromBytes(<< c0 % 256, c1 % 256, c2 % 256, c3 % 256 >>)

\* a bit of x & y, x | y and x ^ y
BitOf(op, a, b) ==
    CASE op = "&" -> a * b
      [] op = "|" -> a + b - a * b
      [] op = "^" -> (a + b) % 2

\* a bitwise operation on two 16-bit halves
RECURSIVE Bits16(_, _, _, _)
Bits16(op, x, y, n) ==
    IF n = 0 THEN 0
    ELSE BitOf(op, x % 2, y % 2) + 2 * Bits16(op, x \div 2, y \div 2, n - 1)

Bits32(op, x, y) ==
    Wrap32(Bits16(op, (x \div Half) % Half, (y \div Half) % Half, 16),
           Bits16(op, x % Half, y % Half, 16))

And32(x, y) == Bits32("&", x, y)
Or32(x, y) == Bits32("|", x, y)
Xor32(x, y) == Bits32("^", x, y)
\* ^x
Not32(x) == (0 - 1) - x

\* x << y: a shift count of 32 or more gives 0
RECURSIVE Shl32(_, _)
Shl32(x, y) ==
    IF y < 0 \/ y >= 32 THEN 0
    ELSE IF y = 0 THEN x
    ELSE Shl32(Add32(x, x), y - 1)

\* x >> y (logical): a shift count of 32 or more gives 0
Shr32(x, y) ==
    LET hi == (x \div Half) % Half
        lo == x % Half
    IN  IF y < 0 \/ y >= 32 THEN 0
        ELSE IF y >= 16 THEN hi \div Pow2(y - 16)
        ELSE Wrap32(hi \div Pow2(y), (hi % Pow2(y)) * Pow2(16 - y) + (lo \div Pow2(y)))

\* ------------------------------------------------------------------------
\* float32 arithmetic on bit patterns (IEEE 754 binary32, round to nearest
\* even).  A NaN result is the one of the amd64 build: an operand that is
\* a NaN comes back quieted (the first operand before the second), an
\* invalid operation gives 0xFFC00000.
\* ------------------------------------------------------------------------
f32Hidden == Pow2(23)
f32Inf == 255 * f32Hidden
f32DefaultNaN == 0 - 4194304
\* math.NaN() converted to float32
f32ModNaN == f32Inf + 4194304

\* the pattern without its sign bit
f32Abs(w) == IF w < 0 THEN (w + 2147483647) + 1 ELSE w
f32WithSign(neg, a) == IF neg THEN (a - 2147483647) - 1 ELSE a
f32Neg(w) == f32WithSign(w >= 0, f32Abs(w))
f32Exp(w) == f32Abs(w) \div f32Hidden
f32Frac(w) == f32Abs(w) % f32Hidden
f32IsNaN(w) == f32Exp(w) = 255 /\ f32Frac(w) # 0
f32IsInf(w) == f32Exp(w) = 255 /\ f32Frac(w) = 0
f32IsZero(w) == f32Abs(w) = 0
f32Quiet(w) == IF f32Frac(w) < 4194304 THEN w + 4194304 ELSE w

\* a finite w is (-1)^sign * f32Sig(w) * 2^f32Lsb(w)
f32Sig(w) == IF f32Exp(w) = 0 THEN f32Frac(w) ELSE f32Hidden + f32Frac(w)
f32Lsb(w) == IF f32Exp(w) = 0 THEN 0 - 149 ELSE f32Exp(w) - 150

\* the same with the significand shifted up to 24 bits (w not zero)
f32NormSig(w) == f32Sig(w) * Pow2(24 - BitLen(f32Sig(w)))
f32NormLsb(w) == f32Lsb(w) - (24 - BitLen(f32Sig(w)))

\* sig with its low n bits shifted out and or-ed into the lowest bit kept
f32ShiftJam(sig, n) ==
    IF n = 0 THEN sig
    ELSE IF n > 30 THEN (IF sig # 0 THEN 1 ELSE 0)
    ELSE LET s == sig \div Pow2(n)
         IN  IF sig % Pow2(n) # 0 /\ s % 2 = 0 THEN s + 1 ELSE s

\* the pattern of the 24-bit significand q with lsb exponent e
f32Pack(neg, q, e) ==
    f32WithSign(neg, IF q < f32Hidden THEN q
                     ELSE IF e + 150 >= 255 THEN f32Inf
                     ELSE (e + 150) * f32Hidden + (q - f32Hidden))

f32Carry(neg, q, e) ==
    IF q = 2 * f32Hidden THEN f32Pack(neg, f32Hidden, e + 1) ELSE f32Pack(neg, q, e)

\* sig * 2^at rounded to the lsb exponent e >= at, ties to even
f32RoundAt(neg, sig, at, e) ==
    LET n == e - at
        q == IF n > 30 THEN 0 ELSE sig \div Pow2(n)
        r == IF n > 30 THEN sig ELSE sig % Pow2(n)
        up == n > 0 /\ n <= 30 /\ (r > Pow2(n - 1) \/ (r = Pow2(n - 1) /\ q % 2 = 1))
    IN  f32Carry(neg, IF up THEN q + 1 ELSE q, e)

\* the float32 nearest to (-1)^neg * sig * 2^at, 0 < sig < 2^30
f32Round(neg, sig, at) ==
    LET e == IF at + BitLen(sig) - 24 < 0 - 149 THEN 0 - 149 ELSE at + BitLen(sig) - 24
    IN  IF e <= at THEN f32Pack(neg, sig * Pow2(at - e), e)
        ELSE f32RoundAt(neg, sig, at, e)

\* a + b for finite operands that are not zero, a the one with the larger
\* lsb exponent
f32AddAligned(a, b) ==
    LET A == f32Sig(a) * 8
        B == f32ShiftJam(f32Sig(b) * 8, f32Lsb(a) - f32Lsb(b))
        at == f32Lsb(a) - 3
    IN  IF (a < 0) = (b < 0) THEN f32Round(a < 0, A + B, at)
        ELSE IF A > B THEN f32Round(a < 0, A - B, at)
        ELSE IF A < B THEN f32Round(b < 0, B - A, at)
        ELSE 0

float32Add(x, y) ==
    IF f32IsNaN(x) THEN f32Quiet(x)
    ELSE IF f32IsNaN(y) THEN f32Quiet(y)
    ELSE IF f32IsInf(x)
    THEN (IF f32IsInf(y) /\ (x < 0) # (y < 0) THEN f32DefaultNaN ELSE x)
    ELSE IF f32IsInf(y) THEN y
    ELSE IF f32IsZero(x)
    THEN (IF f32IsZero(y) THEN (IF x = y THEN x ELSE 0) ELSE y)
    ELSE IF f32IsZero(y) THEN x
    ELSE IF f32Lsb(x) >= f32Lsb(y) THEN f32AddAligned(x, y)
    ELSE f32AddAligned(y, x)

float32Sub(x, y) ==
    IF f32IsNaN(x) THEN f32Quiet(x)
    ELSE IF f32IsNaN(y) THEN f32Quiet(y)
    ELSE float32Add(x, f32Neg(y))

\* the 48-bit product of two 24-bit significands, cut to its upper 28 bits
\* with the bits cut off or-ed into the lowest one
f32Product(a, b) ==
    LET a1 == a \div 4096
        a0 == a % 4096
        b1 == b \div 4096
        b0 == b % 4096
        mid == a1 * b0 + a0 * b1
        t == a0 * b0 + (mid % 4096) * 4096
        low == t % 16777216
        hi == a1 * b1 + (mid \div 4096) + (t \div 16777216)
        s == hi * 16 + (low \div 1048576)
    IN  IF low % 1048576 # 0 /\ s % 2 = 0 THEN s + 1 ELSE s

float32Mul(x, y) ==
    LET neg == (x < 0) # (y < 0)
    IN  IF f32IsNaN(x) THEN f32Quiet(x)
        ELSE IF f32IsNaN(y) THEN f32Quiet(y)
        ELSE IF f32IsInf(x) \/ f32IsInf(y)
        THEN (IF f32IsZero(x) \/ f32IsZero(y) THEN f32DefaultNaN
              ELSE f32WithSign(neg, f32Inf))
        ELSE IF f32IsZero(x) \/ f32IsZero(y) THEN f32WithSign(neg, 0)
        ELSE f32Round(neg, f32Product(f32NormSig(x), f32NormSig(y)),
                      f32NormLsb(x) + f32NormLsb(y) + 20)

\* the quotient a / b of two 24-bit significands, bit by bit: q gets n more
\* bits, r is the remainder so far
RECURSIVE f32Quotient(_, _, _, _)
f32Quotient(q, r, b, n) ==
    IF n = 0 THEN 2 * q + (IF r # 0 THEN 1 ELSE 0)
    ELSE IF 2 * r >= b THEN f32Quotient(2 * q + 1, 2 * r - b, b, n - 1)
    ELSE f32Quotient(2 * q, 2 * r, b, n - 1)

float32Div(x, y) ==
    LET neg == (x < 0) # (y < 0)
    IN  IF f32IsNaN(x) THEN f32Quiet(x)
        ELSE IF f32IsNaN(y) THEN f32Quiet(y)
        ELSE IF f32IsInf(x)
        THEN (IF f32IsInf(y) THEN f32DefaultNaN ELSE f32WithSign(neg, f32Inf))
        ELSE IF f32IsInf(y) THEN f32WithSign(neg, 0)
        ELSE IF f32IsZero(y)
        THEN (IF f32IsZero(x) THEN f32DefaultNaN ELSE f32WithSign(neg, f32Inf))
        ELSE IF f32IsZero(x) THEN f32WithSign(neg, 0)
        ELSE f32Round(neg,
                      f32Quotient(f32NormSig(x) \div f32NormSig(y),
                                  f32NormSig(x) % f32NormSig(y), f32NormSig(y), 27),
                      f32NormLsb(x) - f32NormLsb(y) - 28)

\* (sig * 2^n) mod b, for b < 2^24
RECURSIVE f32ModShifted(_, _, _)
f32ModShifted(sig, n, b) ==
    IF n = 0 THEN sig % b ELSE f32ModShifted((2 * (sig % b)) % b, n - 1, b)

\* math.Mod on two finite operands that are not zero, as significands and
\* lsb exponents: the remainder has the dividend's sign
f32ModFinite(neg, a, ea, b, eb) ==
    IF ea >= eb
    THEN LET r == f32ModShifted(a, ea - eb, b)
         IN  IF r = 0 THEN f32WithSign(neg, 0) ELSE f32Round(neg, r, eb)
    ELSE IF eb - ea > 24 \/ b > a \div Pow2(eb - ea) THEN f32Pack(neg, a, ea)
    ELSE LET r == a % (b * Pow2(eb - ea))
         IN  IF r = 0 THEN f32WithSign(neg, 0) ELSE f32Round(neg, r, ea)

\* float32(math.Mod(float64(x), float64(y)))
float32Mod(x, y) ==
    IF f32IsZero(y) \/ f32IsInf(x) \/ f32IsNaN(x) \/ f32IsNaN(y) THEN f32ModNaN
    ELSE IF f32IsInf(y) \/ f32IsZero(x) THEN x
    ELSE f32ModFinite(x < 0, f32Sig(x), f32Lsb(x), f32Sig(y), f32Lsb(y))

\* the place of a pattern that is not a NaN in the order of the floats
f32Key(w) == IF w < 0 THEN 0 - f32Abs(w) ELSE w

\* compare on float32 operands: a NaN is neither less nor greater
float32Compare(x, y) ==
    IF f32IsNaN(x) \/ f32IsNaN(y) THEN 0
    ELSE IF f32Key(x) < f32Key(y) THEN -1
    ELSE IF f32Key(x) > f32Key(y) THEN 1
    ELSE 0

uint16ToBytes(u) == << u % 256, (u \div 256) % 256 >>

MemRead(mem, a) == IF a \in DOMAIN mem THEN mem[a] ELSE 0

\* memory with the bytes bs written at a, a + 1, ...
MemWriteBytes(mem, a, bs) ==
    LET span == {a + i - 1 : i \in 1..Len(bs)}
        keep == {x \in span : bs[x - a + 1] # 0}
    IN  [x \in ((DOMAIN mem) \ span) \cup keep |->
            IF x \in span THEN bs[x - a + 1] ELSE mem[x]] @@ << >>

MemWrite(mem, a, b) == MemWriteBytes(mem, a, << b >>)

MemReadBytes(mem, a, n) == [i \in 1..n |-> MemRead(mem, a + i - 1)]

MemWord(mem, a) == uint32FromBytes(MemReadBytes(mem, a, 4))

\* ------------------------------------------------------------------------
\* Byte slices.  A Go slice into vm.memory is (base, len, cap); ok = FALSE
\* is the slice expression that panicked.
\* ------------------------------------------------------------------------
NoSlice == [ok |-> FALSE, base |-> 0, len |-> 0, cap |-> 0]

\* s[low:]  panics unless 0 <= low <= len(s)
SliceFrom(s, low) ==
    IF s.ok /\ low >= 0 /\ low <= s.len
    THEN [ok |-> TRUE, base |-> s.base + low, len |-> s.len - low, cap |-> s.cap - low]
    ELSE NoSlice

\* s[low:high]  panics unless 0 <= low <= high <= cap(s)
SliceRange(s, low, high) ==
    IF s.ok /\ low >= 0 /\ low <= high /\ high <= s.cap
    THEN [ok |-> TRUE, base |-> s.base + low, len |-> high - low, cap |-> s.cap - low]
    ELSE NoSlice

\* vm.memory[:] and vm.memory[low:high] (slices of the array)
WholeMemory == [ok |-> TRUE, base |-> 0, len |-> heapSizeBytes, cap |-> heapSizeBytes]
MemorySlice(low, high) == SliceRange(WholeMemory, low, high)

\* binary.LittleEndian.Uint32 / PutUint32 need 4 bytes, Uint16 needs 2
HasBytes(s, n) == s.ok /\ s.len >= n

\* ------------------------------------------------------------------------
\* The VM record.  panicked is the Go panic in flight: it is only set while
\* one iteration of execInstructions is being computed, every helper below
\* is skipped once it is set, and the deferred recover() clears it.
\* ------------------------------------------------------------------------
Panicked(m) == [m EXCEPT !.panicked = TRUE]
Reg(m, r) == m.registers[r]
SetReg(m, r, v) == [m EXCEPT !.registers[r] = v]
PutBytes(m, a, bs) == [m EXCEPT !.memory = MemWriteBytes(@, a, bs)]

\* Takes an absolute stack pointer and converts it to a stack pointer
\* relative to the current stack slice
computeRelativeStackPointer(m, sp) == Sub32(sp, m.stackOffsetBytes)

\* vm.activeSegment[computeRelativeStackPointer(addr):]
SegmentAt(m, addr) == SliceFrom(m.activeSegment, computeRelativeStackPointer(m, addr))

\* Writes the words ws one after the other at the start of slice sl, as the
\* pushStackTwo/Three/Four bodies do: word i is written by
\* uint32ToBytes(v, bytes[4*i:]), which panics when fewer than 4 bytes remain;
\* the words before it have been written by then.
RECURSIVE PutWords(_, _, _)
PutWords(m, sl, ws) ==
    IF ws = << >> THEN m
    ELSE IF ~HasBytes(sl, varchBytes) THEN Panicked(m)
    ELSE PutWords(PutBytes(m, sl.base, uint32ToBytes(Head(ws))),
                  SliceFrom(sl, varchBytes), Tail(ws))

\* Returns current top of stack without moving stack pointer
peekStack(m) == SegmentAt(m, Reg(m, SP))

\* Reserves space on the stack without returning anything
pushStackFast(m, bytes) == SetReg(m, SP, Sub32(Reg(m, SP), bytes))

\* Removes bytes from the stack without returning anything
popStackFast(m, bytes) == SetReg(m, SP, Add32(Reg(m, SP), bytes))

\* Narrows value to 1 byte and pushes it to the stack
pushStackByte(m, value) ==
    IF m.panicked THEN m
    ELSE LET m1  == pushStackFast(m, 1)
             rel == computeRelativeStackPointer(m1, Reg(m1, SP))
         IN  IF rel >= 0 /\ rel < m1.activeSegment.len
             THEN PutBytes(m1, m1.activeSegment.base + rel, << value % 256 >>)
             ELSE Panicked(m1)

\* Pushes the words ws (lowest address first) after moving SP down
PushWords(m, ws) ==
    IF m.panicked THEN m
    ELSE LET m1 == pushStackFast(m, varchBytes * Len(ws))
             sl == peekStack(m1)
         IN  IF sl.ok THEN PutWords(m1, sl, ws) ELSE Panicked(m1)

\* Pushes value to stack unmodified
pushStack(m, value) == PushWords(m, << value >>)
\* pushStackTwo with the two words laid out in the opposite order
pushStackTwoSwapped(m, v0, v1) == PushWords(m, << v1, v0 >>)
\* Same as if push(v1); push(v0) had happened in order
pushStackTwo(m, v0, v1) == PushWords(m, << v0, v1 >>)
\* pushStackFour with the four words laid out in the opposite order
pushStackFourReversed(m, v0, v1, v2, v3) == PushWords(m, << v3, v2, v1, v0 >>)
\* Same as if push(v3); push(v2); push(v1); push(v0) had happened in order
pushStackFour(m, v0, v1, v2, v3) == PushWords(m, << v0, v1, v2, v3 >>)

\* Copies n bytes from src to dst inside memory, highest index first
RECURSIVE CopyDown(_, _, _, _)
CopyDown(mem, dst, src, n) ==
    IF n = 0 THEN mem
    ELSE CopyDown(MemWrite(mem, dst + n - 1, MemRead(mem, src + n - 1)), dst, src, n - 1)

\* Pushes a sequence of bytes to the stack (starts reading at the end of data
\* down to 0).  data is either a slice of memory (alias = TRUE: base, len) or
\* a byte string owned by a device response (alias = FALSE: bytes).
pushStackSegment(m, data) ==
    IF m.panicked THEN m
    ELSE LET lendata == IF data.alias THEN data.len ELSE Len(data.bytes)
         IN  IF lendata = 0 THEN m
             ELSE LET m1 == pushStackFast(m, lendata)
                      sl == peekStack(m1)
                  IN  IF ~sl.ok \/ lendata - 1 >= sl.len THEN Panicked(m1)
                      ELSE IF data.alias
                      THEN [m1 EXCEPT !.memory = CopyDown(@, sl.base, data.base, lendata)]
                      ELSE PutBytes(m1, sl.base, data.bytes)

OwnedBytes(bs) == [alias |-> FALSE, base |-> 0, len |-> Len(bs), bytes |-> bs]
AliasBytes(sl) == [alias |-> TRUE, base |-> sl.base, len |-> sl.len, bytes |-> << >>]

\* Pops n words: SP moves first (getAndIncrement), then the n words at the old
\* SP are read.  Result: the machine and the words (<< >> when it panicked).
PopWords(m, n) ==
    LET m1 == popStackFast(m, varchBytes * n)
        sl == SegmentAt(m1, Reg(m, SP))
    IN  IF m.panicked THEN [m |-> m, v |-> << >>]
        ELSE IF HasBytes(sl, varchBytes * n)
        THEN [m |-> m1, v |-> [i \in 1..n |-> MemWord(m.memory, sl.base + varchBytes * (i - 1))]]
        ELSE [m |-> Panicked(m1), v |-> << >>]

popStackUint32(m) == PopWords(m, 1)
popStackx2Uint32(m) == PopWords(m, 2)
popStackx4Uint32(m) == PopWords(m, 4)

\* ------------------------------------------------------------------------
\* Memory management unit (device on port 2)
\* ------------------------------------------------------------------------
\* updateBounds without its unprivileged branch
updateBoundsWholeMemory(m) ==
    IF m.panicked THEN m
    ELSE [m EXCEPT !.activeSegment = WholeMemory, !.stackOffsetBytes = 0]

\* memoryManagement.updateBounds
updateBounds(m) ==
    IF m.panicked THEN m
    ELSE IF Reg(m, MODE) = 0
    THEN [m EXCEPT !.activeSegment = WholeMemory, !.stackOffsetBytes = 0]
    ELSE LET sl == MemorySlice(m.mmu.minHeapAddr, m.mmu.maxHeapAddr)
         IN  IF sl.ok
             THEN [m EXCEPT !.activeSegment = sl, !.stackOffsetBytes = m.mmu.minHeapAddr]
             ELSE Panicked(m)

\* memoryManagement.TrySend(id, command, data); data is a slice of memory.
\* The status is always StatusDeviceReady unless the call panics.
mmuTrySend(m, command, data) ==
    IF m.panicked THEN m
    ELSE IF command = 1 THEN m
    ELSE IF command = 2
    THEN IF HasBytes(data, varchBytesx2)
         THEN updateBounds([m EXCEPT !.mmu =
                  [minHeapAddr |-> MemWord(m.memory, data.base),
                   maxHeapAddr |-> MemWord(m.memory, data.base + varchBytes)]])
         ELSE Panicked(m)
    ELSE updateBounds(m)

mmuReset(m) ==
    updateBounds([m EXCEPT !.mmu = [minHeapAddr |-> 0, maxHeapAddr |-> heapSizeBytes]])

\* ------------------------------------------------------------------------
\* Interrupt entry and call return
\* ------------------------------------------------------------------------
\* an interrupt entry that saves the address of the instruction before PC
initForInterruptRewound(m) ==
    IF m.panicked THEN m
    ELSE LET sp == Reg(m, SP)
             m1 == pushStackFour(m, Sub32(Reg(m, PC), instructionBytes), sp, Reg(m, FP),
                                 Reg(m, MODE))
             m2 == SetReg(m1, FP, Reg(m1, SP))
         IN  IF m1.panicked THEN m1
             ELSE IF Reg(m2, MODE) # 0
             THEN mmuTrySend(SetReg(m2, MODE, 0), 3, NoSlice)
             ELSE m2

initForInterrupt(m) ==
    IF m.panicked THEN m
    ELSE LET sp == Reg(m, SP)
             m1 == pushStackFour(m, Reg(m, PC), sp, Reg(m, FP), Reg(m, MODE))
             m2 == SetReg(m1, FP, Reg(m1, SP))
         IN  IF m1.panicked THEN m1
             ELSE IF Reg(m2, MODE) # 0
             THEN mmuTrySend(SetReg(m2, MODE, 0), 3, NoSlice)
             ELSE m2

\* Backs up the stack to the current frame pointer, then restores the old
\* frame pointer and program counter
returnFromCall(m) ==
    IF m.panicked THEN m
    ELSE LET p == popStackx2Uint32(SetReg(m, SP, Reg(m, FP)))
         IN  IF p.m.panicked THEN p.m
             ELSE SetReg(SetReg(p.m, PC, p.v[1]), FP, p.v[2])

\* ------------------------------------------------------------------------
\* Bytecodes and (arg-count, opcode) tags
\* ------------------------------------------------------------------------
Nop == 0
Byte == 1
Const == 2
Load == 3
Store == 4
Kstore == 5
Loadp8 == 16
Loadp16 == 17
Loadp32 == 18
Storep8 == 19
Storep16 == 20
Storep32 == 21
Push == 22
Pop == 23
Addi == 32
Addf == 33
Subi == 34
Subf == 35
Muli == 36
Mulf == 37
Divi == 38
Divf == 39
Remu == 40
Rems == 41
Remf == 42
Not == 48
And == 49
Or == 50
Xor == 51
Shiftl == 53
Shiftr == 52
Jmp == 64
Jz == 65
Jnz == 66
Jle == 67
Jl == 68
Jge == 69
Jg == 70
Cmpu == 71
Cmps == 72
Cmpf == 73
Writeb == 80
Writec == 81
Flush == 82
Readc == 83
Raddi == 96
Raddf == 97
Rsubi == 98
Rsubf == 99
Rmuli == 100
Rmulf == 101
Rdivi == 102
Rdivf == 103
Rshiftr == 104
Rshiftl == 105
Exit == 255
\* the names the tags of compile.go give the register load and stores
Rload == Load
Rstore == Store
Rkstore == Kstore
\* opcodes whose numeric value is declared outside the available sources
Call == 74
Return == 75
Sysint == 80
Resume == 81
Write == 83
Srload == 106
Srstore == 107
Halt == 255

Tag(numArgs, code) == numArgs * 256 + code

nopNoArgs == Tag(0, Nop)
byteOneArg == Tag(1, Byte)
constOneArg == Tag(1, Const)
loadOneArg == Tag(1, Rload)
storeOneArg == Tag(1, Rstore)
kstoreOneArg == Tag(1, Rkstore)
loadp8NoArgs == Tag(0, Loadp8)
loadp16NoArgs == Tag(0, Loadp16)
loadp32NoArgs == Tag(0, Loadp32)
loadp8OneArg == Tag(1, Loadp8)
loadp16OneArg == Tag(1, Loadp16)
loadp32OneArg == Tag(1, Loadp32)
storep8NoArgs == Tag(0, Storep8)
storep16NoArgs == Tag(0, Storep16)
storep32NoArgs == Tag(0, Storep32)
storep8OneArg == Tag(1, Storep8)
storep16OneArg == Tag(1, Storep16)
storep32OneArg == Tag(1, Storep32)
pushNoArgs == Tag(0, Push)
pushOneArg == Tag(1, Push)
popNoArgs == Tag(0, Pop)
popOneArg == Tag(1, Pop)
addiNoArgs == Tag(0, Addi)
addiOneArg == Tag(1, Addi)
addfNoArgs == Tag(0, Addf)
addfOneArg == Tag(1, Addf)
subiNoArgs == Tag(0, Subi)
subiOneArg == Tag(1, Subi)
subfNoArgs == Tag(0, Subf)
subfOneArg == Tag(1, Subf)
muliNoArgs == Tag(0, Muli)
muliOneArg == Tag(1, Muli)
mulfNoArgs == Tag(0, Mulf)
mulfOneArg == Tag(1, Mulf)
diviNoArgs == Tag(0, Divi)
diviOneArg == Tag(1, Divi)
divfNoArgs == Tag(0, Divf)
divfOneArg == Tag(1, Divf)
remuNoArgs == Tag(0, Remu)
remuOneArg == Tag(1, Remu)
remsNoArgs == Tag(0, Rems)
remsOneArg == Tag(1, Rems)
remfNoArgs == Tag(0, Remf)
remfOneArg == Tag(1, Remf)
notNoArgs == Tag(0, Not)
andNoArgs == Tag(0, And)
andOneArg == Tag(1, And)
orNoArgs == Tag(0, Or)
orOneArg == Tag(1, Or)
xorNoArgs == Tag(0, Xor)
xorOneArg == Tag(1, Xor)
shiftLNoArgs == Tag(0, Shiftl)
shiftLOneArg == Tag(1, Shiftl)
shiftRNoArgs == Tag(0, Shiftr)
shiftROneArg == Tag(1, Shiftr)
jmpNoArgs == Tag(0, Jmp)
jmpOneArg == Tag(1, Jmp)
jzNoArgs == Tag(0, Jz)
jzOneArg == Tag(1, Jz)
jnzNoArgs == Tag(0, Jnz)
jnzOneArg == Tag(1, Jnz)
jleNoArgs == Tag(0, Jle)
jleOneArg == Tag(1, Jle)
jlNoArgs == Tag(0, Jl)
jlOneArg == Tag(1, Jl)
jgeNoArgs == Tag(0, Jge)
jgeOneArg == Tag(1, Jge)
jgNoArgs == Tag(0, Jg)
jgOneArg == Tag(1, Jg)
cmpuNoArgs == Tag(0, Cmpu)
cmpsNoArgs == Tag(0, Cmps)
cmpfNoArgs == Tag(0, Cmpf)
callNoArgs == Tag(0, Call)
callOneArg == Tag(1, Call)
returnNoArgs == Tag(0, Return)
returnOneArg == Tag(1, Return)
sysintOneArg == Tag(1, Sysint)
resumeNoArgs == Tag(0, Resume)
writeTwoArgs == Tag(2, Write)
raddiOneArg == Tag(1, Raddi)
raddiTwoArgs == Tag(2, Raddi)
raddfOneArg == Tag(1, Raddf)
raddfTwoArgs == Tag(2, Raddf)
rsubiOneArg == Tag(1, Rsubi)
rsubiTwoArgs == Tag(2, Rsubi)
rsubfOneArg == Tag(1, Rsubf)
rsubfTwoArgs == Tag(2, Rsubf)
rmuliOneArg == Tag(1, Rmuli)
rmuliTwoArgs == Tag(2, Rmuli)
rmulfOneArg == Tag(1, Rmulf)
rmulfTwoArgs == Tag(2, Rmulf)
rdiviOneArg == Tag(1, Rdivi)
rdiviTwoArgs == Tag(2, Rdivi)
rdivfOneArg == Tag(1, Rdivf)
rdivfTwoArgs == Tag(2, Rdivf)
rshiftLOneArg == Tag(1, Rshiftl)
rshiftLTwoArgs == Tag(2, Rshiftl)
rshiftROneArg == Tag(1, Rshiftr)
rshiftRTwoargs == Tag(2, Rshiftr)
srLoadOneArg == Tag(1, Srload)
srStoreOneArg == Tag(1, Srstore)
haltNoArgs == Tag(0, Halt)

\* Instructions are made up of: first 16 bits => numArgs, bytecode; next 16
\* bits => register index; next 32 bits => oparg
NewInstruction(numArgs, code, register, arg) ==
    [code |-> Tag(numArgs, code), register |-> register, arg |-> arg]

\* The 8 bytes NewVirtualMachine writes for an instruction
EncodeInstruction(instr) ==
    uint16ToBytes(instr.code) \o uint16ToBytes(instr.register) \o uint32ToBytes(instr.arg)

\* Returns (code, register, oparg) of the 8 bytes at address a of memory
decodeInstruction(mem, a) ==
    [code     |-> MemRead(mem, a) + 256 * MemRead(mem, a + 1),
     register |-> MemRead(mem, a + 2) + 256 * MemRead(mem, a + 3),
     arg      |-> MemWord(mem, a + 4)]

\* ------------------------------------------------------------------------
\* Instruction helpers
\* ------------------------------------------------------------------------
\* the assignment to vm.errcode left out
FaultDropped(m, e) == m

\* vm.errcode = e
Fault(m, e) == [m EXCEPT !.errcode = e]

\* Peeks the first item off the stack, converts it to uint32 and returns the
\* stack bytes that are safe to write to
getStackOneInput(m) ==
    LET sl == peekStack(m)
    IN  IF HasBytes(sl, varchBytes)
        THEN [m |-> m, x |-> MemWord(m.memory, sl.base), bytes |-> sl]
        ELSE [m |-> Panicked(m), x |-> 0, bytes |-> NoSlice]

\* Pops the first item off the stack, peeks the second.  Converts both
\* inputs to uint32 and returns the stack bytes that are safe to write to
getStackTwoInputs(m) ==
    LET m1 == popStackFast(m, varchBytes)
        xs == SegmentAt(m1, Reg(m, SP))
        ys == SliceFrom(xs, varchBytes)
    IN  IF HasBytes(xs, varchBytes) /\ HasBytes(ys, varchBytes)
        THEN [m |-> m1, x |-> MemWord(m.memory, xs.base),
              y |-> MemWord(m.memory, ys.base), bytes |-> ys]
        ELSE [m |-> Panicked(m1), x |-> 0, y |-> 0, bytes |-> NoSlice]

\* Returns 1st and 2nd top stack values (as byte slices) before moving the
\* stack pointer forward
popStackx2(m) ==
    LET m1 == popStackFast(m, varchBytesx2)
        xs == SegmentAt(m1, Reg(m, SP))
        ys == SliceFrom(xs, varchBytes)
    IN  IF xs.ok /\ ys.ok
        THEN [m |-> m1, addrBytes |-> xs, valueBytes |-> ys]
        ELSE [m |-> Panicked(m1), addrBytes |-> NoSlice, valueBytes |-> NoSlice]

\* load pointer 8, 16 and 32 bits: reads n bytes at addr, widens to 32 bits
\* and overwrites the stack slot bytes
loadpN(m, n, addr, bytes) ==
    LET rel == computeRelativeStackPointer(m, addr)
        src == SliceFrom(m.activeSegment, rel)
        okN == IF n = 1 THEN rel >= 0 /\ rel < m.activeSegment.len ELSE HasBytes(src, n)
        b   == MemReadBytes(m.memory, m.activeSegment.base + rel, n)
        val == IF n = 1 THEN b[1]
               ELSE IF n = 2 THEN b[1] + 256 * b[2]
               ELSE uint32FromBytes(b)
    IN  IF okN THEN PutBytes(m, bytes.base, uint32ToBytes(val)) ELSE Panicked(m)

\* store pointer 8, 16 and 32 bits: the unrolled byte-by-byte copy
\*   vm.activeSegment[addr+i] = valueBytes[i]  for i = 0 .. n-1
\* byte i is written only if every earlier byte was; the first index that is
\* out of range panics and leaves the earlier bytes written.
RECURSIVE StoreLoop(_, _, _, _, _)
StoreLoop(m, rel, valueBytes, i, n) ==
    IF i = n THEN m
    ELSE LET idx == Add32(rel, i)
         IN  IF idx >= 0 /\ idx < m.activeSegment.len /\ i < valueBytes.len
             THEN StoreLoop(PutBytes(m, m.activeSegment.base + idx,
                                     << MemRead(m.memory, valueBytes.base + i) >>),
                            rel, valueBytes, i + 1, n)
             ELSE Panicked(m)

storepN(m, n, addr, valueBytes) ==
    StoreLoop(m, computeRelativeStackPointer(m, addr), valueBytes, 0, n)

ExecLoadp(m, n, off) ==
    LET sl == peekStack(m)
    IN  IF HasBytes(sl, varchBytes)
        THEN loadpN(m, n, Add32(MemWord(m.memory, sl.base), off), sl)
        ELSE Panicked(m)

ExecStorep(m, n, off) ==
    LET p == popStackx2(m)
    IN  IF p.m.panicked THEN p.m
        ELSE IF ~HasBytes(p.addrBytes, varchBytes) THEN Panicked(p.m)
        ELSE storepN(p.m, n, Add32(MemWord(m.memory, p.addrBytes.base), off), p.valueBytes)

\* This will ensure we catch invalid stack addresses (push)
CheckStackIndex(m) ==
    LET rel == computeRelativeStackPointer(m, Reg(m, SP))
    IN  IF rel >= 0 /\ rel < m.activeSegment.len THEN m ELSE Panicked(m)

\* a pop that also rejects a relative SP at the end of the segment
CheckStackEndStrict(m) == CheckStackIndex(m)

\* pop: only a relative SP beyond the end of the segment is rejected
CheckStackEnd(m) ==
    LET rel == computeRelativeStackPointer(m, Reg(m, SP))
    IN  IF ULess(m.activeSegment.len, rel) THEN Panicked(m) ELSE m

ExecBinary(m, Op(_, _)) ==
    LET g == getStackTwoInputs(m)
    IN  IF g.m.panicked THEN g.m
        ELSE PutBytes(g.m, g.bytes.base, uint32ToBytes(Op(g.x, g.y)))

ExecUnary(m, oparg, Op(_, _)) ==
    LET g == getStackOneInput(m)
    IN  IF g.m.panicked THEN g.m
        ELSE PutBytes(g.m, g.bytes.base, uint32ToBytes(Op(g.x, oparg)))

UDiv(x, y) == UDivMod(x, y).q

\* a jle that compares its value as unsigned
jleTakenUnsigned(value) == ~ULess(0, value)

\* jle: if int32(value) <= 0
jleTaken(value) == value <= 0

\* jumps: the no-arg forms pop (addr, value), the one-arg forms pop value
ExecJump(m, hasArg, oparg, Taken(_)) ==
    LET p    == IF hasArg THEN popStackUint32(m) ELSE popStackx2Uint32(m)
        addr == IF hasArg THEN oparg ELSE p.v[1]
        val  == IF hasArg THEN p.v[1] ELSE p.v[2]
    IN  IF p.m.panicked THEN p.m
        ELSE IF Taken(val) THEN SetReg(p.m, PC, addr) ELSE p.m

\* pubRegisters has numRegisters entries, registers has all of them
PubRegOk(opreg) == opreg < numRegisters
AnyRegOk(opreg) == opreg < numRegisters + numReservedRegisters

\* r<op> reg: reg = reg <op> stack[0], result overwrites stack[0]
ExecRegOne(m, opreg, Op(_, _)) ==
    LET g == getStackOneInput(m)
    IN  IF g.m.panicked THEN g.m
        ELSE IF ~PubRegOk(opreg) THEN Panicked(g.m)
        ELSE LET m1 == SetReg(g.m, opreg, Op(Reg(g.m, opreg), g.x))
             IN  PutBytes(m1, g.bytes.base, uint32ToBytes(Reg(m1, opreg)))

\* r<op> reg k: reg = reg <op> k, result pushed
ExecRegTwo(m, opreg, oparg, Op(_, _)) ==
    IF ~PubRegOk(opreg) THEN Panicked(m)
    ELSE LET m1 == SetReg(m, opreg, Op(Reg(m, opreg), oparg))
         IN  pushStack(m1, Reg(m1, opreg))

\* ------------------------------------------------------------------------
\* Instruction dispatch: the switch of execInstructions for every tag except
\* the device call of `write` (see WritePre / the Engine actions).  m is the
\* machine after the fetch, i.e. with PC already advanced.
\* ------------------------------------------------------------------------
\* sysint that enters whatever address the slot holds
ExecSysintUnconfigured(m, oparg) ==
    IF oparg >= 0 /\ oparg < restrictedInterruptsAddrRange /\ Reg(m, MODE) # 0
    THEN Fault(m, errIllegalInstruction)
    ELSE IF ~HasBytes(MemorySlice(oparg, heapSizeBytes), varchBytes) THEN Panicked(m)
    ELSE LET m1 == initForInterrupt(m)
         IN  IF m1.panicked THEN m1 ELSE SetReg(m1, PC, MemWord(m.memory, oparg))

\* case sysintOneArg
ExecSysint(m, oparg) ==
    IF oparg >= 0 /\ oparg < restrictedInterruptsAddrRange /\ Reg(m, MODE) # 0
    THEN Fault(m, errIllegalInstruction)
    ELSE IF ~HasBytes(MemorySlice(oparg, heapSizeBytes), varchBytes) THEN Panicked(m)
    ELSE LET handlerAddr == MemWord(m.memory, oparg)
         IN  IF handlerAddr = 0 THEN Fault(m, errUnknownInstruction)
             ELSE LET m1 == initForInterrupt(m)
                  IN  IF m1.panicked THEN m1 ELSE SetReg(m1, PC, handlerAddr)

ExecResume(m) ==
    IF Reg(m, MODE) # 0 THEN Fault(m, errIllegalInstruction)
    ELSE LET p  == popStackx4Uint32(SetReg(m, SP, Reg(m, FP)))
             m1 == IF p.m.panicked THEN p.m
                   ELSE IF p.v[4] # 0
                   THEN mmuTrySend(SetReg(p.m, MODE, p.v[4]), 3, NoSlice)
                   ELSE p.m
         IN  IF m1.panicked THEN m1
             ELSE SetReg(SetReg(SetReg(m1, PC, p.v[1]), SP, p.v[2]), FP, p.v[3])

\* srload without its privilege check
ExecSrLoadUnchecked(m, opreg) ==
    IF ~AnyRegOk(opreg) THEN Panicked(m) ELSE pushStack(m, Reg(m, opreg))

\* case srLoadOneArg
ExecSrLoad(m, opreg) ==
    IF Reg(m, MODE) # 0 THEN Fault(m, errIllegalInstruction)
    ELSE IF ~AnyRegOk(opreg) THEN Panicked(m)
    ELSE pushStack(m, Reg(m, opreg))

ExecSrStore(m, opreg) ==
    IF Reg(m, MODE) # 0 THEN Fault(m, errIllegalInstruction)
    ELSE LET p == popStackUint32(m)
         IN  IF p.m.panicked THEN p.m
             ELSE IF ~AnyRegOk(opreg) THEN Panicked(p.m)
             ELSE mmuTrySend(SetReg(p.m, opreg, p.v[1]), 3, NoSlice)

\* call (stack-address form) that leaves the target address where the old
\* frame pointer belongs
ExecCallNoArgsKeepsAddress(m) ==
    LET sl == peekStack(m)
    IN  IF ~HasBytes(sl, varchBytes) THEN Panicked(m)
        ELSE LET addr == MemWord(m.memory, sl.base)
                 m1   == pushStack(m, Reg(m, PC))
             IN  IF m1.panicked THEN m1
                 ELSE SetReg(SetReg(m1, PC, addr), FP, Reg(m1, SP))

\* case callNoArgs
ExecCallNoArgs(m) ==
    LET sl == peekStack(m)
    IN  IF ~HasBytes(sl, varchBytes) THEN Panicked(m)
        ELSE LET addr == MemWord(m.memory, sl.base)
                 m1   == pushStack(PutBytes(m, sl.base, uint32ToBytes(Reg(m, FP))), Reg(m, PC))
             IN  IF m1.panicked THEN m1
                 ELSE SetReg(SetReg(m1, PC, addr), FP, Reg(m1, SP))

ExecCallOneArg(m, oparg) ==
    LET m1 == pushStackTwo(m, Reg(m, PC), Reg(m, FP))
    IN  IF m1.panicked THEN m1
        ELSE SetReg(SetReg(m1, PC, oparg), FP, Reg(m1, SP))

ExecReturnOneArg(m, oparg) ==
    LET relsp == computeRelativeStackPointer(m, Reg(m, SP))
        bytes == SliceRange(m.activeSegment, relsp, Add32(relsp, oparg))
    IN  IF ~bytes.ok THEN Panicked(m)
        ELSE pushStackSegment(returnFromCall(m), AliasBytes(bytes))

ExecDivi(m, hasArg, oparg) ==
    IF hasArg
    THEN IF oparg = 0 THEN Fault(m, errDivisionByZero)
         ELSE ExecUnary(m, oparg, UDiv)
    ELSE LET g == getStackTwoInputs(m)
         IN  IF g.m.panicked THEN g.m
             ELSE IF g.y = 0 THEN Fault(g.m, errDivisionByZero)
             ELSE PutBytes(g.m, g.bytes.base, uint32ToBytes(UDiv(g.x, g.y)))

ExecRdivi(m, hasArg, opreg, oparg) ==
    IF hasArg
    THEN IF oparg = 0 THEN Fault(m, errDivisionByZero)
         ELSE ExecRegTwo(m, opreg, oparg, UDiv)
    ELSE LET g == getStackOneInput(m)
         IN  IF g.m.panicked THEN g.m
             ELSE IF g.x = 0 THEN Fault(g.m, errDivisionByZero)
             ELSE ExecRegOne(m, opreg, UDiv)

\* rem*: resultVal, vm.errcode = arithRemi(x, y); the result (0 on error)
\* is written and the loop is not continued
ExecRem(m, hasArg, oparg, unsigned) ==
    LET g == IF hasArg THEN getStackOneInput(m) ELSE getStackTwoInputs(m)
        y == IF hasArg THEN oparg ELSE g.y
        r == arithRemi(g.x, y, unsigned)
    IN  IF g.m.panicked THEN g.m
        ELSE PutBytes(Fault(g.m, r.err), g.bytes.base, uint32ToBytes(r.val))

\* a halt that does not rewind the PC
ExecHaltFallsThrough(m) ==
    IF Reg(m, MODE) # 0 THEN Fault(m, errIllegalInstruction) ELSE m

\* haltNoArgs: privilege check, then *pc -= instructionBytes
ExecHalt(m) ==
    IF Reg(m, MODE) # 0 THEN Fault(m, errIllegalInstruction)
    ELSE SetReg(m, PC, Sub32(Reg(m, PC), instructionBytes))

\* HWID reported by GetInfo of the device on a port
DeviceHWID(port) == IF port <= 3 THEN port + 1 ELSE 0

\* `write port 0`: push the device info
ExecWriteInfo(m, opreg) ==
    IF opreg >= maxHWDevices THEN Panicked(m)
    ELSE pushStackTwo(m, DeviceHWID(opreg), 0)

Exec(m, code, opreg, oparg) ==
    CASE code = nopNoArgs -> m
      [] code = byteOneArg -> pushStackByte(m, oparg)
      [] code = constOneArg -> pushStack(m, oparg)
      [] code = loadOneArg ->
            IF PubRegOk(opreg) THEN pushStack(m, Reg(m, opreg)) ELSE Panicked(m)
      [] code = storeOneArg ->
            LET p == popStackUint32(m)
            IN  IF p.m.panicked THEN p.m
                ELSE IF PubRegOk(opreg) THEN SetReg(p.m, opreg, p.v[1]) ELSE Panicked(p.m)
      [] code = kstoreOneArg ->
            LET g == getStackOneInput(m)
            IN  IF g.m.panicked THEN g.m
                ELSE IF PubRegOk(opreg) THEN SetReg(g.m, opreg, g.x) ELSE Panicked(g.m)
      [] code = loadp8NoArgs -> ExecLoadp(m, 1, 0)
      [] code = loadp16NoArgs -> ExecLoadp(m, 2, 0)
      [] code = loadp32NoArgs -> ExecLoadp(m, 4, 0)
      [] code = loadp8OneArg -> ExecLoadp(m, 1, oparg)
      [] code = loadp16OneArg -> ExecLoadp(m, 2, oparg)
      [] code = loadp32OneArg -> ExecLoadp(m, 4, oparg)
      [] code = storep8NoArgs -> ExecStorep(m, 1, 0)
      [] code = storep16NoArgs -> ExecStorep(m, 2, 0)
      [] code = storep32NoArgs -> ExecStorep(m, 4, 0)
      [] code = storep8OneArg -> ExecStorep(m, 1, oparg)
      [] code = storep16OneArg -> ExecStorep(m, 2, oparg)
      [] code = storep32OneArg -> ExecStorep(m, 4, oparg)
      [] code = pushNoArgs ->
            LET p == popStackUint32(m)
            IN  IF p.m.panicked THEN p.m ELSE CheckStackIndex(pushStackFast(p.m, p.v[1]))
      [] code = pushOneArg -> CheckStackIndex(pushStackFast(m, oparg))
      [] code = popNoArgs ->
            LET p == popStackUint32(m)
            IN  IF p.m.panicked THEN p.m ELSE CheckStackEnd(popStackFast(p.m, p.v[1]))
      [] code = popOneArg -> CheckStackEnd(popStackFast(m, oparg))
      [] code = addiNoArgs -> ExecBinary(m, Add32)
      [] code = addiOneArg -> ExecUnary(m, oparg, Add32)
      [] code = addfNoArgs -> ExecBinary(m, float32Add)
      [] code = addfOneArg -> ExecUnary(m, oparg, float32Add)
      [] code = subiNoArgs -> ExecBinary(m, Sub32)
      [] code = subiOneArg -> ExecUnary(m, oparg, Sub32)
      [] code = subfNoArgs -> ExecBinary(m, float32Sub)
      [] code = subfOneArg -> ExecUnary(m, oparg, float32Sub)
      [] code = muliNoArgs -> ExecBinary(m, Mul32)
      [] code = muliOneArg -> ExecUnary(m, oparg, Mul32)
      [] code = mulfNoArgs -> ExecBinary(m, float32Mul)
      [] code = mulfOneArg -> ExecUnary(m, oparg, float32Mul)
      [] code = diviNoArgs -> ExecDivi(m, FALSE, oparg)
      [] code = diviOneArg -> ExecDivi(m, TRUE, oparg)
      [] code = divfNoArgs -> ExecBinary(m, float32Div)
      [] code = divfOneArg -> ExecUnary(m, oparg, float32Div)
      [] code = raddiOneArg -> ExecRegOne(m, opreg, Add32)
      [] code = raddiTwoArgs -> ExecRegTwo(m, opreg, oparg, Add32)
      [] code = raddfOneArg -> ExecRegOne(m, opreg, float32Add)
      [] code = raddfTwoArgs -> ExecRegTwo(m, opreg, oparg, float32Add)
      [] code = rsubiOneArg -> ExecRegOne(m, opreg, Sub32)
      [] code = rsubiTwoArgs -> ExecRegTwo(m, opreg, oparg, Sub32)
      [] code = rsubfOneArg -> ExecRegOne(m, opreg, float32Sub)
      [] code = rsubfTwoArgs -> ExecRegTwo(m, opreg, oparg, float32Sub)
      [] code = rmuliOneArg -> ExecRegOne(m, opreg, Mul32)
      [] code = rmuliTwoArgs -> ExecRegTwo(m, opreg, oparg, Mul32)
      [] code = rmulfOneArg -> ExecRegOne(m, opreg, float32Mul)
      [] code = rmulfTwoArgs -> ExecRegTwo(m, opreg, oparg, float32Mul)
      [] code = rdiviOneArg -> ExecRdivi(m, FALSE, opreg, oparg)
      [] code = rdiviTwoArgs -> ExecRdivi(m, TRUE, opreg, oparg)
      [] code = rdivfOneArg -> ExecRegOne(m, opreg, float32Div)
      [] code = rdivfTwoArgs -> ExecRegTwo(m, opreg, oparg, float32Div)
      [] code = rshiftLOneArg -> ExecRegOne(m, opreg, Shl32)
      [] code = rshiftLTwoArgs -> ExecRegTwo(m, opreg, oparg, Shl32)
      [] code = rshiftROneArg -> ExecRegOne(m, opreg, Shr32)
      [] code = rshiftRTwoargs -> ExecRegTwo(m, opreg, oparg, Shr32)
      [] code = remuNoArgs -> ExecRem(m, FALSE, oparg, TRUE)
      [] code = remuOneArg -> ExecRem(m, TRUE, oparg, TRUE)
      [] code = remsNoArgs -> ExecRem(m, FALSE, oparg, FALSE)
      [] code = remsOneArg -> ExecRem(m, TRUE, oparg, FALSE)
      [] code = remfNoArgs -> ExecBinary(m, float32Mod)
      [] code = remfOneArg -> ExecUnary(m, oparg, float32Mod)
      [] code = notNoArgs -> ExecUnary(m, oparg, LAMBDA x, k : Not32(x))
      [] code = andNoArgs -> ExecBinary(m, And32)
      [] code = andOneArg -> ExecUnary(m, oparg, And32)
      [] code = orNoArgs -> ExecBinary(m, Or32)
      [] code = orOneArg -> ExecUnary(m, oparg, Or32)
      [] code = xorNoArgs -> ExecBinary(m, Xor32)
      [] code = xorOneArg -> ExecUnary(m, oparg, Xor32)
      [] code = shiftLNoArgs -> ExecBinary(m, Shl32)
      [] code = shiftLOneArg -> ExecUnary(m, oparg, Shl32)
      [] code = shiftRNoArgs -> ExecBinary(m, Shr32)
      [] code = shiftROneArg -> ExecUnary(m, oparg, Shr32)
      [] code = jmpNoArgs ->
            LET p == popStackUint32(m)
            IN  IF p.m.panicked THEN p.m ELSE SetReg(p.m, PC, p.v[1])
      [] code = jmpOneArg -> SetReg(m, PC, oparg)
      [] code = jzNoArgs -> ExecJump(m, FALSE, oparg, LAMBDA v : v = 0)
      [] code = jzOneArg -> ExecJump(m, TRUE, oparg, LAMBDA v : v = 0)
      [] code = jnzNoArgs -> ExecJump(m, FALSE, oparg, LAMBDA v : v # 0)
      [] code = jnzOneArg -> ExecJump(m, TRUE, oparg, LAMBDA v : v # 0)
      [] code = jleNoArgs -> ExecJump(m, FALSE, oparg, jleTaken)
      [] code = jleOneArg -> ExecJump(m, TRUE, oparg, jleTaken)
      [] code = jlNoArgs -> ExecJump(m, FALSE, oparg, LAMBDA v : v < 0)
      [] code = jlOneArg -> ExecJump(m, TRUE, oparg, LAMBDA v : v < 0)
      [] code = jgeNoArgs -> ExecJump(m, FALSE, oparg, LAMBDA v : v >= 0)
      [] code = jgeOneArg -> ExecJump(m, TRUE, oparg, LAMBDA v : v >= 0)
      [] code = jgNoArgs -> ExecJump(m, FALSE, oparg, LAMBDA v : v > 0)
      [] code = jgOneArg -> ExecJump(m, TRUE, oparg, LAMBDA v : v > 0)
      [] code = cmpuNoArgs -> ExecBinary(m, LAMBDA x, y : compare(x, y, TRUE))
      [] code = cmpsNoArgs -> ExecBinary(m, LAMBDA x, y : compare(x, y, FALSE))
      [] code = cmpfNoArgs -> ExecBinary(m, float32Compare)
      [] code = callNoArgs -> ExecCallNoArgs(m)
      [] code = callOneArg -> ExecCallOneArg(m, oparg)
      [] code = returnNoArgs -> returnFromCall(m)
      [] code = returnOneArg -> ExecReturnOneArg(m, oparg)
      [] code = srLoadOneArg -> ExecSrLoad(m, opreg)
      [] code = srStoreOneArg -> ExecSrStore(m, opreg)
      [] code = sysintOneArg -> ExecSysint(m, oparg)
      [] code = resumeNoArgs -> ExecResume(m)
      [] code = writeTwoArgs ->
            IF Reg(m, MODE) # 0 THEN Fault(m, errIllegalInstruction)
            ELSE IF oparg = 0 THEN ExecWriteInfo(m, opreg)
            ELSE m
      [] code = haltNoArgs -> ExecHalt(m)
      [] OTHER -> Fault(m, errUnknownInstruction)

\* ------------------------------------------------------------------------
\* `write port cmd` with cmd # 0: the part before and after the device call
\* ------------------------------------------------------------------------
\* interactionId, numBytes := popStackx2Uint32(); data := memory[sp : sp+numBytes];
\* popStackFast(numBytes); the device array is indexed after that
WritePre(m, opreg) ==
    LET p    == popStackx2Uint32(m)
        sptr == Reg(p.m, SP)
        data == MemorySlice(sptr, Add32(sptr, p.v[2]))
    IN  IF p.m.panicked THEN [m |-> p.m, id |-> 0, data |-> NoSlice]
        ELSE IF ~data.ok THEN [m |-> Panicked(p.m), id |-> 0, data |-> NoSlice]
        ELSE IF opreg >= maxHWDevices
        THEN [m |-> Panicked(popStackFast(p.m, p.v[2])), id |-> 0, data |-> NoSlice]
        ELSE [m |-> popStackFast(p.m, p.v[2]), id |-> p.v[1], data |-> data]

\* vm.pushStack(status) once TrySend has returned
WritePost(m, status) == pushStack(m, status)

\* consoleIO.TrySend commands 2 and 3 only read their data (stdout is not
\* part of the model); they panic when the data is too short or when the
\* byte range to print leaves memory
consoleWriteOk(m, command, data) ==
    IF command = 2 THEN HasBytes(data, varchBytes)
    ELSE IF command = 3
    THEN HasBytes(data, varchBytesx2)
         /\ LET numBytes == MemWord(m.memory, data.base)
                addr     == MemWord(m.memory, data.base + varchBytes)
            IN  numBytes = 0
                \/ (addr >= 0 /\ addr < heapSizeBytes
                    /\ numBytes > 0 /\ numBytes <= heapSizeBytes - addr)
    ELSE TRUE

\* Device calls that complete on the engine thread without touching a
\* channel or a lock
IsSyncDeviceCall(port, command) ==
    \/ port >= 4
    \/ port = 0 /\ command = 1
    \/ port = 1 /\ command \notin {2, 3}
    \/ port = 2
    \/ port = 3 /\ command # 4

\* TrySend of such a call: the machine after it (the status is SyncStatus)
SyncTrySend(m, port, command, data) ==
    IF port = 2 THEN mmuTrySend(m, command, data)
    ELSE IF port = 3 /\ ~consoleWriteOk(m, command, data) THEN Panicked(m)
    ELSE m

\* setInitialVMState
setInitialVMState(m) ==
    LET m1 == [m EXCEPT !.registers[PC] = reservedBytes,
                        !.registers[SP] = heapSizeBytes,
                        !.registers[FP] = heapSizeBytes,
                        !.registers[MODE] = 0,
                        !.errcode = errNil]
    IN  pushStack(pushStack(mmuTrySend(m1, 3, NoSlice), reservedBytes),
                  m.processInstructionBytes)

\* Places the program image: instruction i at reservedBytes + 8 * i
LoadImage(instrs) ==
    LET byteAt(x) == EncodeInstruction(instrs[((x - reservedBytes) \div instructionBytes) + 1])
                         [((x - reservedBytes) % instructionBytes) + 1]
        image == reservedBytes..(reservedBytes + instructionBytes * Len(instrs) - 1)
    IN  [x \in {y \in image : byteAt(y) # 0} |-> byteAt(x)] @@ << >>

\* Takes a program and returns a VM that's ready to execute the program from
\* the beginning
NewVirtualMachine(instrs) ==
    setInitialVMState(
        [registers |-> [r \in 0..(numRegisters + numReservedRegisters - 1) |-> 0],
         memory |-> LoadImage(instrs),
         activeSegment |-> WholeMemory,
         stackOffsetBytes |-> 0,
         errcode |-> errNil,
         mmu |-> [minHeapAddr |-> 0, maxHeapAddr |-> heapSizeBytes],
         processInstructionBytes |-> Len(instrs) * instructionBytes,
         panicked |-> FALSE])

\* The deferred recover() of execInstructions: a panic becomes a pending
\* segmentation fault unless an error code is already set
Recover(m) ==
    IF m.panicked
    THEN [m EXCEPT !.panicked = FALSE,
                   !.errcode = IF m.errcode = errNil THEN errSegmentationFault ELSE m.errcode]
    ELSE m

\* a request queue that accepts every request
sendNeverRefused(count) == FALSE

\* nonBlockingChan.send fails when the incremented count exceeds the capacity
sendRefused(count) == count + 1 > charRequestsCapacity

\* deviceErr = errNil is the response without a device error
NewResponse(interruptAddr, id, data, err) ==
    [interruptAddr |-> interruptAddr, id |-> id, data |-> data, deviceErr |-> err]

\* ------------------------------------------------------------------------
\* Programs.  A program is a sequence of instructions as the compiler emits
\* them (NewInstruction); instruction i lives at Addr(i).
\* ------------------------------------------------------------------------
Addr(i) == reservedBytes + instructionBytes * (i - 1)

K(v) == NewInstruction(1, Const, 0, v)
Op0(code) == NewInstruction(0, code, 0, 0)
Op1(code, arg) == NewInstruction(1, code, 0, arg)
RegOp(code, reg) == NewInstruction(1, code, reg, 0)
Wr(port, cmd) == NewInstruction(2, Write, port, cmd)

\* const target; const slot; storep32
SetHandler(slot, target) == << K(target), K(slot), Op0(Storep32) >>
\* const max; const min; const 8; const 0; write 2 2; pop 4
SetWindow(min, max) == << K(max), K(min), K(varchBytesx2), K(0), Wr(2, 2), Op1(Pop, varchBytes) >>
\* const value; const addr; storep32
Poke(addr, value) == << K(value), K(addr), Op0(Storep32) >>
\* const 1; srstore 32
GoUnpriv == << K(1), RegOp(Srstore, MODE) >>
\* push n (or pop n) with the n that takes SP to sp from where the two words
\* of setInitialVMState leave it: the assembler accepts no write to register 1
MoveSP(sp) ==
    IF sp <= heapSizeBytes - varchBytesx2
    THEN << Op1(Push, (heapSizeBytes - varchBytesx2) - sp) >>
    ELSE << Op1(Pop, sp - (heapSizeBytes - varchBytesx2)) >>
\* const 0; const 0; write 1 3
Poweroff == << K(0), K(0), Wr(1, 3) >>
\* const us; const 4; const id; write 0 2; pop 4
ArmTimer(us, id) == << K(us), K(varchBytes), K(id), Wr(0, 2), Op1(Pop, varchBytes) >>
\* const 0; const id; write 3 4; pop 4
ReadChar(id) == << K(0), K(id), Wr(3, 4), Op1(Pop, varchBytes) >>

\* IVT slots used by the programs
timerSlot == 0 * varchBytes
consoleSlot == 3 * varchBytes
exitSlot == restrictedInterruptsAddrRange + varchBytes
privSlot == hwInterruptAddrRange + 8 * varchBytes

RECURSIVE Flatten(_)
Flatten(seqs) == IF seqs = << >> THEN << >> ELSE Head(seqs) \o Flatten(Tail(seqs))

RECURSIVE LenUpTo(_, _)
LenUpTo(seqs, n) == IF n = 0 THEN 0 ELSE Len(seqs[n]) + LenUpTo(seqs, n - 1)

\* Layout: one SetHandler per handler, then the body, then the handlers in
\* order; slot[i] receives the address of handlers[i].  privBody runs before
\* the handler set-up so that a program may be restarted.
Build(slots, body, handlers) ==
    LET n    == Len(slots)
        base == Len(SetHandler(0, 0)) * n + Len(body)
        at(i) == Addr(base + LenUpTo(handlers, i - 1) + 1)
    IN  Flatten([i \in 1..n |-> SetHandler(slots[i], at(i))]) \o body \o Flatten(handlers)

\* The unprivileged window and the bytes placed just above it
winMin == 4 * reservedBytes
winMax == 8 * reservedBytes
secretWord == 171 + 256 * 171

\* Addresses probed by the unprivileged access programs: around both ends of
\* the window, inside the IVT and at the end of memory
AccessAddrs ==
    << winMin - varchBytes, winMin - 1, winMin, winMin + varchBytes, winMax - varchBytes,
       winMax - 3, winMax - 1, winMax, hwInterruptAddrRange, heapSizeBytes - 1 >>

DivisionKinds ==
    {"div0", "div0i", "remu0", "remu0i", "rems0", "rems0i", "rdivi0", "rdivi0i"}
FaultKinds == DivisionKinds \cup {"unknown", "segv", "sysint0", "fetch"}
PrivKinds == {"srload", "srstore", "resume", "halt", "write", "sysint"}
PointerKinds == {"loadp8", "loadp16", "loadp32", "storep8", "storep16", "storep32"}
StackKinds == {"const", "byte", "push", "pop", "addi"}

FaultSlot(k) ==
    CASE k \in {"segv", "fetch"} -> hardwareExceptionMap[errSegmentationFault]
      [] k \in DivisionKinds -> hardwareExceptionMap[errDivisionByZero]
      [] OTHER -> hardwareExceptionMap[errUnknownInstruction]

FaultBody(k) ==
    CASE k = "div0" -> << K(0), K(1), Op0(Divi) >>
      [] k = "remu0" -> << K(0), K(1), Op0(Remu) >>
      [] k = "rems0" -> << K(0), K(1), Op0(Rems) >>
      [] k = "div0i" -> << K(1), Op1(Divi, 0) >>
      [] k = "remu0i" -> << K(1), Op1(Remu, 0) >>
      [] k = "rems0i" -> << K(1), Op1(Rems, 0) >>
      [] k = "rdivi0" -> << K(0), RegOp(Rdivi, numRegisters - 1) >>
      [] k = "rdivi0i" -> << NewInstruction(2, Rdivi, numRegisters - 1, 0) >>
      [] k = "unknown" -> << K(3), NewInstruction(3, Nop, 0, 0) >>
      [] k = "segv" -> << K(heapSizeBytes), Op0(Loadp32) >>
      [] k = "sysint0" -> << K(3), Op1(Sysint, privSlot) >>
      [] k = "fetch" -> << K(3), Op1(Jmp, heapSizeBytes) >>

PrivBody(k) ==
    CASE k = "srload" -> << RegOp(Srload, MODE) >>
      [] k = "srstore" -> << K(0), RegOp(Srstore, MODE) >>
      [] k = "resume" -> << Op0(Resume) >>
      [] k = "halt" -> << Op0(Halt) >>
      [] k = "write" -> Poweroff
      [] k = "sysint" -> << Op1(Sysint, privSlot) >>

PointerBody(k, a) ==
    CASE k = "loadp8" -> << K(a), Op0(Loadp8) >>
      [] k = "loadp16" -> << K(a), Op0(Loadp16) >>
      [] k = "loadp32" -> << K(a), Op0(Loadp32) >>
      [] k = "storep8" -> << K(secretWord + 1), K(a), Op0(Storep8) >>
      [] k = "storep16" -> << K(secretWord + 1), K(a), Op0(Storep16) >>
      [] k = "storep32" -> << K(secretWord + 1), K(a), Op0(Storep32) >>

StackBody(k) ==
    CASE k = "const" -> << K(5) >>
      [] k = "byte" -> << Op1(Byte, 5) >>
      [] k = "push" -> << Op1(Push, varchBytes) >>
      [] k = "pop" -> << Op1(Pop, varchBytes) >>
      [] k = "addi" -> << Op1(Addi, 1) >>

\* Prologue of the windowed programs: marker bytes on both sides of the
\* window, the window itself, and the mode switch with SP at sp
EnterWindow(sp) ==
    Poke(winMin - varchBytes, secretWord) \o Poke(winMax, secretWord)
    \o Poke(winMax + varchBytes, secretWord)
    \o SetWindow(winMin, winMax) \o MoveSP(sp) \o GoUnpriv

ExitCall == << Op1(Sysint, exitSlot) >>

\* number of words a `ret` program pushes in the callee before its return
RetDepths == {"depth0", "depth1", "depth2", "depth3"}
RetLocals(k) ==
    CASE k = "depth0" -> 0 [] k = "depth1" -> 1 [] k = "depth2" -> 2 [] OTHER -> 3
\* number of words the `return n` of a `ret` program returns
RetWords == 0..4

\* the conditional jumps, and the condition values the `cjump` programs
\* push; h selects the form with the target as immediate operand
CondKinds == {"jz", "jnz", "jle", "jl", "jge", "jg"}
CondOpcode(k) ==
    CASE k = "jz" -> Jz [] k = "jnz" -> Jnz [] k = "jle" -> Jle
      [] k = "jl" -> Jl [] k = "jge" -> Jge [] OTHER -> Jg
CondValues == << -1, 0, 1, (-2147483647) - 1, 2147483647 >>

\* p = [fam, k, n, h]: the family, the kind inside the family, a number
\* (address index or variant) and whether the exception handler is installed
ProgramText(p) ==
    LET hslot(e) == IF p.h THEN << hardwareExceptionMap[e] >> ELSE << >>
        hbody    == IF p.h THEN << << Op0(Resume) >> >> ELSE << >>
    IN
    CASE p.fam = "fault" ->
            Build(IF p.h THEN << FaultSlot(p.k) >> ELSE << >>,
                  FaultBody(p.k) \o Poweroff, hbody)
      [] p.fam = "priv" ->
            Build(<< exitSlot, privSlot >> \o hslot(errIllegalInstruction),
                  (IF p.n = 1 THEN EnterWindow(winMax) ELSE GoUnpriv)
                  \o << K(7) >> \o PrivBody(p.k) \o ExitCall,
                  << Poweroff, << K(9), Op0(Resume) >> >> \o hbody)
      [] p.fam = "pointer" ->
            Build(<< exitSlot >> \o hslot(errSegmentationFault),
                  EnterWindow(winMax) \o << K(5) >> \o PointerBody(p.k, AccessAddrs[p.n]) \o ExitCall,
                  << Poweroff >> \o hbody)
      [] p.fam = "stack" ->
            Build(<< exitSlot >> \o hslot(errSegmentationFault),
                  EnterWindow(AccessAddrs[p.n]) \o StackBody(p.k) \o ExitCall,
                  << Poweroff >> \o hbody)
      [] p.fam = "ivt" ->
            LET body(t) == (IF p.n = 1 THEN SetWindow(0, winMax) \o MoveSP(winMax) ELSE << >>)
                           \o GoUnpriv \o Poke(FaultSlot(p.k), t) \o FaultBody(p.k) \o ExitCall
            IN  Build(<< exitSlot >>,
                      body(Addr(Len(SetHandler(0, 0)) + Len(body(0)) + 1)),
                      << Poweroff >>)
      [] p.fam = "leak" ->
            Build(<< exitSlot >>,
                  EnterWindow(winMax)
                  \o << Op1(Call, Addr(Len(SetHandler(0, 0)) + Len(EnterWindow(winMax)) + 3)) >>
                  \o ExitCall \o << Op1(Return, varchBytesx4) >>,
                  << Poweroff >>)
      [] p.fam = "badwindow" ->
            Build(hslot(errSegmentationFault),
                  (IF p.n = 0 THEN SetWindow(winMax, winMin)
                   ELSE SetWindow(winMin, heapSizeBytes + varchBytes))
                  \o GoUnpriv \o Poweroff, hbody)
      [] p.fam = "sysint" /\ p.k = "outside" ->
            \* unprivileged code pushes the address of the code after the
            \* program's last handler and points `sysint` at the pushed word
            LET body(target) ==
                    EnterWindow(winMax)
                    \o << K(target), Op1(Sysint, winMax - varchBytes) >> \o ExitCall
                own == Addr(Len(SetHandler(0, 0)) + Len(body(0)) + Len(Poweroff) + 1)
            IN  Build(<< exitSlot >>, body(own), << Poweroff >>) \o << K(9) >> \o Poweroff
      [] p.fam = "sysint" ->
            Build(<< exitSlot, exitSlot + varchBytes >>,
                  (IF p.n = 1 THEN EnterWindow(winMax) ELSE << >>)
                  \o << K(7), Op1(Sysint, exitSlot + varchBytes), Op1(Pop, varchBytes) >> \o ExitCall,
                  << Poweroff, << K(9), Op0(Resume) >> >>)
      [] p.fam = "timer" ->
            IF p.k = "poweroff"
            THEN Build(<< timerSlot >>, ArmTimer(0, 123) \o << Op0(Halt) >>, << Poweroff >>)
            ELSE IF p.k = "rearm"
            THEN Build(<< timerSlot >>,
                       ArmTimer(0, 5) \o ArmTimer(0, 6) \o << Op0(Halt) >>,
                       << Poweroff >>)
            ELSE IF p.k = "unhandled"
            THEN ArmTimer(0, 5) \o << Op0(Halt) >>
            ELSE IF p.k = "cancel"
            THEN Build(<< timerSlot >>, ArmTimer(0, 5) \o Poweroff, << Poweroff >>)
            ELSE Build(<< timerSlot, consoleSlot >>,
                       ArmTimer(0, 5) \o ReadChar(9) \o << Op0(Halt) >>,
                       << << Op0(Resume) >>, Poweroff >>)
      [] p.fam = "overflow" ->
            Build(hslot(errIO),
                  ArmTimer(0, 5) \o ReadChar(9)
                  \o << Op1(Jmp, Addr(Len(SetHandler(0, 0)) * Len(hslot(errIO))
                                      + Len(ArmTimer(0, 5)) + 1)) >>,
                  IF p.h THEN << Poweroff >> ELSE << >>)
      [] p.fam = "restart" /\ p.k = "readafter" ->
            \* first pass: mark memory and restart; second pass: request a
            \* character and park
            << K(winMin), Op0(Loadp32), Op1(Jnz, Addr(10)) >>
            \o Poke(winMin, 1) \o << K(0), K(0), Wr(1, 2) >>
            \o ReadChar(9) \o << Op0(Halt) >>
      [] p.fam = "restart" ->
            LET pre == IF p.h THEN SetHandler(hardwareExceptionMap[errDivisionByZero], Addr(1))
                       ELSE << >>
                mid == CASE p.k = "armed" -> ArmTimer(0, 5)
                         [] p.k = "reads" -> ReadChar(9) \o ReadChar(10)
                         [] OTHER -> << >>
            IN  pre \o << K(winMin), Op0(Loadp32), Op1(Jnz, Addr(Len(pre) + Len(mid) + 10)) >>
                \o Poke(winMin, 1) \o mid \o << K(0), K(0), Wr(1, 2) >> \o Poweroff
      [] p.fam = "call" ->
            LET pre  == IF p.n = 1 THEN EnterWindow(winMax) ELSE << >>
                site == Len(SetHandler(0, 0)) + Len(pre) + 1
                F    == Addr(site + (IF p.k = "imm" THEN 1 ELSE 2) + Len(ExitCall) + 1)
            IN  Build(<< exitSlot >>,
                      pre \o << K(7) >>
                      \o (IF p.k = "imm" THEN << Op1(Call, F) >> ELSE << K(F), Op0(Call) >>)
                      \o ExitCall \o << Op0(Return) >>,
                      << Poweroff >>)
      [] p.fam = "ret" ->
            LET site == << K(11), K(22), Op1(Call, Addr(Len(Poweroff) + 4)) >>
            IN  site \o Poweroff \o [i \in 1..RetLocals(p.k) |-> K(100 + i)]
                \o << Op1(Return, varchBytes * p.n) >>
      [] p.fam = "status" ->
            << K(secretWord), K(varchBytes), K(3), Wr(p.n, 1) >> \o Poweroff
      [] p.fam = "regs" ->
            (IF p.n = 1 THEN << Op1(Pop, varchBytes) >> ELSE << K(secretWord) >>)
            \o (IF p.k = "kstore"
                THEN << RegOp(Rkstore, numRegisters - 1), Op1(Pop, varchBytes) >>
                ELSE << RegOp(Rstore, numRegisters - 1) >>)
            \o Poweroff
      [] p.fam = "cjump" ->
            LET v == CondValues[p.n]
            IN  (IF p.h THEN << K(v), Op1(CondOpcode(p.k), Addr(6)) >>
                 ELSE << K(v), K(Addr(7)), Op0(CondOpcode(p.k)) >>)
                \o Poweroff \o << K(9) >> \o Poweroff
      [] p.fam = "jump" ->
            << Op1(Jmp, reservedBytes - varchBytes) >> \o Poweroff
      [] p.fam = "window" ->
            \* the mode switch with SP left where the boot words put it,
            \* above the window
            SetWindow(winMin, winMax) \o GoUnpriv \o Poweroff
      [] p.fam = "asm" ->
            << >>

\* ------------------------------------------------------------------------
\* The assembler (compile.go).  A source line is a sequence of characters;
\* a printable character is the one-character string (the grave accent is
\* written "grave"), the control characters are written "^G" .. "^M".
\* ------------------------------------------------------------------------
\* printable ASCII in code order, from the space (32) to the tilde (126)
Printable ==
    << " ", "!", "\"", "#", "$", "%", "&", "'", "(", ")", "*", "+", ",", "-", ".", "/",
       "0", "1", "2", "3", "4", "5", "6", "7", "8", "9", ":", ";", "<", "=", ">", "?",
       "@", "A", "B", "C", "D", "E", "F", "G", "H", "I", "J", "K", "L", "M", "N", "O",
       "P", "Q", "R", "S", "T", "U", "V", "W", "X", "Y", "Z", "[", "\\", "]", "^", "_",
       "grave", "a", "b", "c", "d", "e", "f", "g", "h", "i", "j", "k", "l", "m", "n", "o",
       "p", "q", "r", "s", "t", "u", "v", "w", "x", "y", "z", "{", "|", "}", "~" >>

ControlChars == << "^G", "^H", "^I", "^J", "^K", "^L", "^M" >>

IndexIn(seq, x) == CHOOSE i \in DOMAIN seq : seq[i] = x

\* the byte value of a character
Ord(c) ==
    IF \E i \in DOMAIN ControlChars : ControlChars[i] = c
    THEN 6 + IndexIn(ControlChars, c)
    ELSE 31 + IndexIn(Printable, c)

DecimalDigits == << "0", "1", "2", "3", "4", "5", "6", "7", "8", "9" >>
HexLetters == << "a", "b", "c", "d", "e", "f" >>
HexCapitals == << "A", "B", "C", "D", "E", "F" >>

IsDigit(c) == \E i \in DOMAIN DecimalDigits : DecimalDigits[i] = c
IsHexDigit(c) ==
    \/ IsDigit(c)
    \/ \E i \in DOMAIN HexLetters : HexLetters[i] = c \/ HexCapitals[i] = c
DigitValue(c) ==
    IF IsDigit(c) THEN IndexIn(DecimalDigits, c) - 1
    ELSE IF \E i \in DOMAIN HexLetters : HexLetters[i] = c THEN 9 + IndexIn(HexLetters, c)
    ELSE 9 + IndexIn(HexCapitals, c)

\* unicode.IsSpace on the characters of the model
IsSpace(c) == c \in {" ", "^I", "^J", "^K", "^L", "^M"}

\* the characters a regular expression's \b takes for parts of a word
IsWordChar(c) ==
    /\ \E i \in DOMAIN Printable : Printable[i] = c
    /\ \/ Ord(c) \in 48..57
       \/ Ord(c) \in 65..90
       \/ Ord(c) \in 97..122
       \/ c = "_"

\* fmt.Sprintf("%d", n) for n >= 0
RECURSIVE Sprintd(_)
Sprintd(n) ==
    IF n < 10 THEN << DecimalDigits[n + 1] >>
    ELSE Sprintd(n \div 10) \o << DecimalDigits[(n % 10) + 1] >>

HasPrefix(s, p) == Len(s) >= Len(p) /\ SubSeq(s, 1, Len(p)) = p
HasSuffix(s, p) == Len(s) >= Len(p) /\ SubSeq(s, Len(s) - Len(p) + 1, Len(s)) = p

\* strings.LastIndex, counted from 1; 0 when c does not occur
LastIndex(s, c) ==
    IF \E i \in DOMAIN s : s[i] = c
    THEN CHOOSE i \in DOMAIN s : s[i] = c /\ \A j \in (i + 1)..Len(s) : s[j] # c
    ELSE 0

\* the least element of a set of integers that is not empty
Least(S) == CHOOSE i \in S : \A j \in S : i <= j

\* comments.ReplaceAllString(line, ""): the regular expression is //.* and
\* its dot does not match a newline, so a comment ends before the next one
RECURSIVE commentsRemoved(_)
commentsCut(line, from, ends) ==
    IF ends = {} THEN SubSeq(line, 1, from - 1)
    ELSE SubSeq(line, 1, from - 1) \o << "^J" >>
         \o commentsRemoved(SubSeq(line, Least(ends) + 1, Len(line)))

commentsFrom(line, from) ==
    commentsCut(line, from, {j \in from..Len(line) : line[j] = "^J"})

commentsRemoved(line) ==
    LET starts == {i \in 1..(Len(line) - 1) : line[i] = "/" /\ line[i + 1] = "/"}
    IN  IF starts = {} THEN line ELSE commentsFrom(line, Least(starts))

trimTo(s, keep) ==
    IF keep = {} THEN << >>
    ELSE SubSeq(s, CHOOSE i \in keep : \A j \in keep : i <= j,
                   CHOOSE i \in keep : \A j \in keep : i >= j)

\* strings.TrimSpace
TrimSpace(s) == trimTo(s, {i \in DOMAIN s : ~IsSpace(s[i])})

\* strings.Split(s, " ")
RECURSIVE SplitSpaces(_)
SplitSpaces(s) ==
    LET at == {i \in DOMAIN s : s[i] = " "}
    IN  IF at = {} THEN << s >>
        ELSE LET i == CHOOSE x \in at : \A y \in at : x <= y
             IN  << SubSeq(s, 1, i - 1) >> \o SplitSpaces(SubSeq(s, i + 1, Len(s)))

\* strings.Join(parts, " ")
RECURSIVE JoinSpaces(_)
JoinSpaces(parts) ==
    IF parts = << >> THEN << >>
    ELSE IF Len(parts) = 1 THEN parts[1]
    ELSE parts[1] \o << " " >> \o JoinSpaces(Tail(parts))

\* escapeSeqReplacements: the character after the backslash, and what the
\* pair is replaced with
escapeSeqReplacements ==
    << << "a", "^G" >>, << "b", "^H" >>, << "t", "^I" >>, << "n", "^J" >>,
       << "r", "^M" >>, << "f", "^L" >>, << "v", "^K" >>, << "\"", "\"" >> >>

\* Checks for things like \\n and replaces it with \n.  No replacement
\* produces a backslash and no two pairs overlap, so the order in which the
\* map is walked does not matter.
RECURSIVE insertEscapeSeqReplacements(_)
insertEscapeSeqReplacements(line) ==
    IF line = << >> THEN << >>
    ELSE IF /\ Len(line) >= 2
            /\ line[1] = "\\"
            /\ \E i \in DOMAIN escapeSeqReplacements : escapeSeqReplacements[i][1] = line[2]
    THEN LET i == CHOOSE x \in DOMAIN escapeSeqReplacements :
                      escapeSeqReplacements[x][1] = line[2]
         IN  << escapeSeqReplacements[i][2] >>
             \o insertEscapeSeqReplacements(SubSeq(line, 3, Len(line)))
    ELSE << line[1] >> \o insertEscapeSeqReplacements(Tail(line))

\* Maps from string -> instruction
strToInstrMap ==
    << [name |-> << "n", "o", "p" >>, code |-> Nop],
       [name |-> << "b", "y", "t", "e" >>, code |-> Byte],
       [name |-> << "c", "o", "n", "s", "t" >>, code |-> Const],
       [name |-> << "l", "o", "a", "d" >>, code |-> Load],
       [name |-> << "s", "t", "o", "r", "e" >>, code |-> Store],
       [name |-> << "k", "s", "t", "o", "r", "e" >>, code |-> Kstore],
       [name |-> << "l", "o", "a", "d", "p", "8" >>, code |-> Loadp8],
       [name |-> << "l", "o", "a", "d", "p", "1", "6" >>, code |-> Loadp16],
       [name |-> << "l", "o", "a", "d", "p", "3", "2" >>, code |-> Loadp32],
       [name |-> << "s", "t", "o", "r", "e", "p", "8" >>, code |-> Storep8],
       [name |-> << "s", "t", "o", "r", "e", "p", "1", "6" >>, code |-> Storep16],
       [name |-> << "s", "t", "o", "r", "e", "p", "3", "2" >>, code |-> Storep32],
       [name |-> << "p", "u", "s", "h" >>, code |-> Push],
       [name |-> << "p", "o", "p" >>, code |-> Pop],
       [name |-> << "a", "d", "d", "i" >>, code |-> Addi],
       [name |-> << "a", "d", "d", "f" >>, code |-> Addf],
       [name |-> << "s", "u", "b", "i" >>, code |-> Subi],
       [name |-> << "s", "u", "b", "f" >>, code |-> Subf],
       [name |-> << "m", "u", "l", "i" >>, code |-> Muli],
       [name |-> << "m", "u", "l", "f" >>, code |-> Mulf],
       [name |-> << "d", "i", "v", "i" >>, code |-> Divi],
       [name |-> << "d", "i", "v", "f" >>, code |-> Divf],
       [name |-> << "r", "e", "m", "u" >>, code |-> Remu],
       [name |-> << "r", "e", "m", "s" >>, code |-> Rems],
       [name |-> << "r", "e", "m", "f" >>, code |-> Remf],
       [name |-> << "n", "o", "t" >>, code |-> Not],
       [name |-> << "a", "n", "d" >>, code |-> And],
       [name |-> << "o", "r" >>, code |-> Or],
       [name |-> << "X", "o", "r" >>, code |-> Xor],
       [name |-> << "s", "h", "i", "f", "t", "l" >>, code |-> Shiftl],
       [name |-> << "s", "h", "i", "f", "t", "r" >>, code |-> Shiftr],
       [name |-> << "j", "m", "p" >>, code |-> Jmp],
       [name |-> << "j", "z" >>, code |-> Jz],
       [name |-> << "j", "n", "z" >>, code |-> Jnz],
       [name |-> << "j", "l", "e" >>, code |-> Jle],
       [name |-> << "j", "l" >>, code |-> Jl],
       [name |-> << "j", "g", "e" >>, code |-> Jge],
       [name |-> << "j", "g" >>, code |-> Jg],
       [name |-> << "c", "m", "p", "u" >>, code |-> Cmpu],
       [name |-> << "c", "m", "p", "s" >>, code |-> Cmps],
       [name |-> << "c", "m", "p", "f" >>, code |-> Cmpf],
       [name |-> << "w", "r", "i", "t", "e", "b" >>, code |-> Writeb],
       [name |-> << "w", "r", "i", "t", "e", "c" >>, code |-> Writec],
       [name |-> << "f", "l", "u", "s", "h" >>, code |-> Flush],
       [name |-> << "r", "e", "a", "d", "c" >>, code |-> Readc],
       [name |-> << "r", "a", "d", "d", "i" >>, code |-> Raddi],
       [name |-> << "r", "a", "d", "d", "f" >>, code |-> Raddf],
       [name |-> << "r", "s", "u", "b", "i" >>, code |-> Rsubi],
       [name |-> << "r", "s", "u", "b", "f" >>, code |-> Rsubf],
       [name |-> << "r", "m", "u", "l", "i" >>, code |-> Rmuli],
       [name |-> << "r", "m", "u", "l", "f" >>, code |-> Rmulf],
       [name |-> << "r", "d", "i", "v", "i" >>, code |-> Rdivi],
       [name |-> << "r", "d", "i", "v", "f" >>, code |-> Rdivf],
       [name |-> << "r", "s", "h", "i", "f", "t", "l" >>, code |-> Rshiftl],
       [name |-> << "r", "s", "h", "i", "f", "t", "r" >>, code |-> Rshiftr],
       [name |-> << "e", "x", "i", "t" >>, code |-> Exit] >>

IsMnemonic(name) == \E i \in DOMAIN strToInstrMap : strToInstrMap[i].name = name
BytecodeOf(name) ==
    strToInstrMap[CHOOSE i \in DOMAIN strToInstrMap : strToInstrMap[i].name = name].code
\* Bytecode.String(): the name instrToStrMap holds for the bytecode
MnemonicOf(code) ==
    IF \E i \in DOMAIN strToInstrMap : strToInstrMap[i].code = code
    THEN strToInstrMap[CHOOSE i \in DOMAIN strToInstrMap : strToInstrMap[i].code = code].name
    ELSE << "?", "u", "n", "k", "n", "o", "w", "n", "?" >>

RegisterArithmetic ==
    {Raddi, Raddf, Rsubi, Rsubf, Rmuli, Rmulf, Rdivi, Rdivf, Rshiftl, Rshiftr}

\* the classification of the register opcodes
IsRegisterOp(b) == b \in {Rload, Rstore, Rkstore} \cup RegisterArithmetic
IsRegisterWriteOp(b) == b \in {Rstore, Rkstore} \cup RegisterArithmetic
IsPrivilegedRegisterOp(b) == b \in {Srload, Srstore}

\* True if the bytecode requires an argument to be paired with it
NumRequiredOpArgs(b) ==
    IF b \in {Const, Byte, Load, Store, Kstore,
              Raddi, Raddf, Rsubi, Rsubf, Rmuli, Rmulf, Rdivi, Rdivf, Rshiftl, Rshiftr}
    THEN 1 ELSE 0

\* True if the bytecode can optionally accept an argument instead of always
\* inspecting the stack
NumOptionalOpArgs(b) ==
    IF b \in {Addi, Addf, Subi, Subf, Muli, Mulf, Divi, Divf, Remu, Rems, Remf,
              And, Or, Xor, Shiftl, Shiftr, Push, Pop,
              Jmp, Jz, Jnz, Jle, Jl, Jge, Jg,
              Raddi, Raddf, Rsubi, Rsubf, Rmuli, Rmulf, Rdivi, Rdivf, Rshiftl, Rshiftr}
    THEN 1 ELSE 0

NotColon(c) == c # ":"

\* preprocessLine returned an error
PreprocessError == [err |-> TRUE, panic |-> FALSE, labels |-> << >>, lines |-> << >>]

\* preprocessLine did not return: slicing the bytes of the literal panicked
PreprocessPanic == [err |-> TRUE, panic |-> TRUE, labels |-> << >>, lines |-> << >>]

\* preprocessLine returned the lines
Preprocessed(labels, lines) ==
    [err |-> FALSE, panic |-> FALSE, labels |-> labels, lines |-> lines]

SplitError == [err |-> TRUE, code |-> << >>, a0 |-> << >>, a1 |-> << >>]

\* resultArgs of a quoted argument, from the literal with its escape
\* sequences replaced
quotedArgs(code, guardC, quoted) ==
    [err |-> FALSE, code |-> code,
     a0 |-> SubSeq(quoted, 1, LastIndex(quoted, guardC)),
     a1 |-> TrimSpace(SubSeq(quoted, LastIndex(quoted, guardC) + 1, Len(quoted)))]

\* the argument starts with a double or single quote: it must also include a
\* terminating quote
splitQuoted(code, args, guardC, last) ==
    IF last <= 1 THEN SplitError
    ELSE quotedArgs(code, guardC,
                    << guardC >>
                    \o insertEscapeSeqReplacements(SubSeq(args, 2, last - 1))
                    \o << guardC >>)

splitArgs(code, rest, args) ==
    IF HasPrefix(args, << "'" >>) \/ HasPrefix(args, << "\"" >>)
    THEN splitQuoted(code, args, args[1], LastIndex(args, args[1]))
    ELSE IF Len(rest) > 2 THEN SplitError
    ELSE [err |-> FALSE, code |-> code,
          a0 |-> TrimSpace(rest[1]),
          a1 |-> IF Len(rest) > 1 THEN TrimSpace(rest[2]) ELSE << >>]

splitParts(split) ==
    IF Len(split) = 1
    THEN [err |-> FALSE, code |-> split[1], a0 |-> << >>, a1 |-> << >>]
    ELSE splitArgs(split[1], Tail(split), JoinSpaces(Tail(split)))

\* the (instruction, argument0, argument1) triple of a line that is neither
\* blank nor a label; err when the literal is unterminated or there are too
\* many arguments
splitLine(line) == splitParts(SplitSpaces(line))

\* ------------------------------------------------------------------------
\* regexp.Compile and (*Regexp).ReplaceAllString of the Go library, which
\* preprocessLine and CompileSourceFromBuffer apply to the pattern ^label\b.
\* The pattern is read as regexp/syntax reads it under syntax.Perl and is
\* matched leftmost-first.  A character of the model is an ASCII character,
\* so a set of characters is kept as the set of the ASCII codes in it.
\* ------------------------------------------------------------------------
\* syntax.Perl, as far as a pattern can change it
rePerl == [foldCase |-> FALSE, oneLine |-> TRUE, dotNL |-> FALSE, nonGreedy |-> FALSE]

reASCII == 0..127
reLetters == (65..90) \cup (97..122)
reDigits == 48..57

\* the orbit of unicode.SimpleFold through a code point: the Kelvin sign
\* folds to K and the long s folds to S
reOrbit(r) ==
    IF r \in {75, 107, 8490} THEN {75, 107, 8490}
    ELSE IF r \in {83, 115, 383} THEN {83, 115, 383}
    ELSE IF r \in 65..90 THEN {r, r + 32}
    ELSE IF r \in 97..122 THEN {r, r - 32}
    ELSE {r}

\* appendRange and appendFoldedRange: the ASCII codes of the range lo..hi
reRange(lo, hi, foldCase) ==
    IF foldCase
    THEN {x \in reASCII : \E y \in reOrbit(x) : lo <= y /\ y <= hi}
    ELSE {x \in reASCII : lo <= x /\ x <= hi}

\* appendGroup and the end of parseUnicodeClass: a class of characters,
\* folded first and negated second
reGroup(codes, negated, foldCase) ==
    IF negated
    THEN reASCII \ {x \in reASCII : \E y \in reOrbit(x) : y \in codes /\ (foldCase \/ y = x)}
    ELSE {x \in reASCII : \E y \in reOrbit(x) : y \in codes /\ (foldCase \/ y = x)}

\* a node of the syntax tree, and the two marks the parser keeps on its stack
reNode(op, codes, sub, min, max, greedy, flags) ==
    [op |-> op, codes |-> codes, sub |-> sub, min |-> min, max |-> max,
     greedy |-> greedy, flags |-> flags]
reLeaf(op) == reNode(op, {}, << >>, 0, 0, TRUE, rePerl)
reChars(codes) == reNode("charClass", codes, << >>, 0, 0, TRUE, rePerl)
reUnary(op, sub, min, max, greedy) == reNode(op, {}, << sub >>, min, max, greedy, rePerl)
reList(op, subs) == reNode(op, {}, subs, 0, 0, TRUE, rePerl)
reLeftParen(cap, flags) == reNode("leftParen", {}, << >>, cap, 0, TRUE, flags)
reIsPseudo(re) == re.op \in {"leftParen", "verticalBar"}

\* the parser: the next character to read, the stack, the flags, whether
\* the last thing read was a repetition operator
reStart == [ok |-> TRUE, t |-> 1, stack |-> << >>, flags |-> rePerl, lastRepeat |-> FALSE]
reError == [ok |-> FALSE, t |-> 0, stack |-> << >>, flags |-> rePerl, lastRepeat |-> FALSE]

\* push and op
rePush(st, re, t) ==
    [st EXCEPT !.stack = Append(@, re), !.t = t, !.lastRepeat = FALSE]

\* literal
reLiteral(st, r, t) == rePush(st, reChars(reRange(r, r, st.flags.foldCase)), t)

\* the topmost mark of the stack, 0 without one
reMark(stack) ==
    IF \E i \in DOMAIN stack : reIsPseudo(stack[i])
    THEN CHOOSE i \in DOMAIN stack :
            reIsPseudo(stack[i]) /\ \A j \in (i + 1)..Len(stack) : ~reIsPseudo(stack[j])
    ELSE 0

\* collapse
reCollapse(subs, op) == IF Len(subs) = 1 THEN subs[1] ELSE reList(op, subs)

\* concat replaces the top of the stack (above the topmost '|' or '(') with its concatenation
reConcatAbove(stack, i) ==
    IF i = Len(stack) THEN Append(stack, reLeaf("emptyMatch"))
    ELSE Append(SubSeq(stack, 1, i), reCollapse(SubSeq(stack, i + 1, Len(stack)), "concat"))
reConcat(stack) == reConcatAbove(stack, reMark(stack))

\* alternate replaces the top of the stack (above the topmost '(') with its alternation
reAlternateAbove(stack, i) ==
    Append(SubSeq(stack, 1, i), reCollapse(SubSeq(stack, i + 1, Len(stack)), "alternate"))
reAlternate(stack) == reAlternateAbove(stack, reMark(stack))

\* swapVerticalBar: the concatenation on top goes below the vertical bar
reBarBelow(stack) == Len(stack) >= 2 /\ stack[Len(stack) - 1].op = "verticalBar"
reSwapped(stack) ==
    SubSeq(stack, 1, Len(stack) - 2) \o << stack[Len(stack)], stack[Len(stack) - 1] >>

\* parseVerticalBar
reVerticalBar(stack) ==
    IF reBarBelow(stack) THEN reSwapped(stack) ELSE Append(stack, reLeaf("verticalBar"))
parseVerticalBar(st) ==
    [st EXCEPT !.stack = reVerticalBar(reConcat(@)), !.t = @ + 1, !.lastRepeat = FALSE]

\* the end of a group or of the pattern: concat, pop the vertical bar, alternate
reBarPopped(stack) ==
    IF reBarBelow(stack)
    THEN Append(SubSeq(stack, 1, Len(stack) - 2), stack[Len(stack)])
    ELSE stack
reClosed(stack) == reAlternate(reBarPopped(reConcat(stack)))

\* parseRightParen
reRightParen(st, stack) ==
    IF Len(stack) < 2 THEN reError
    ELSE IF stack[Len(stack) - 1].op # "leftParen" THEN reError
    ELSE [ok |-> TRUE, t |-> st.t + 1,
          stack |-> Append(SubSeq(stack, 1, Len(stack) - 2),
                           IF stack[Len(stack) - 1].min = 0
                           THEN stack[Len(stack)]
                           ELSE reUnary("capture", stack[Len(stack)], 0, 0, TRUE)),
          flags |-> stack[Len(stack) - 1].flags,
          lastRepeat |-> FALSE]
parseRightParen(st) == reRightParen(st, reClosed(st.stack))

\* repeatIsValid
RECURSIVE repeatIsValid(_, _)
reRepeatCount(re) == IF re.max < 0 THEN re.min ELSE re.max
repeatIsValid(re, n) ==
    IF re.op = "repeat" /\ re.max = 0 THEN TRUE
    ELSE IF re.op = "repeat" /\ reRepeatCount(re) > n THEN FALSE
    ELSE \A i \in DOMAIN re.sub :
            repeatIsValid(re.sub[i],
                          IF re.op = "repeat" /\ reRepeatCount(re) > 0
                          THEN n \div reRepeatCount(re)
                          ELSE n)

\* repeat: the operator op, read up to (not including) character `after`,
\* applies to the top of the stack
reRepeated(st, re, t) ==
    IF /\ re.op = "repeat"
       /\ (re.min >= 2 \/ re.max >= 2)
       /\ ~repeatIsValid(re, 1000)
    THEN reError
    ELSE [st EXCEPT !.stack = Append(SubSeq(@, 1, Len(@) - 1), re),
                    !.t = t,
                    !.lastRepeat = TRUE]
reRepeatLazy(p, after) == after <= Len(p) /\ p[after] = "?"
repeat(p, st, op, min, max, after) ==
    IF st.lastRepeat THEN reError
    ELSE IF st.stack = << >> THEN reError
    ELSE IF reIsPseudo(st.stack[Len(st.stack)]) THEN reError
    ELSE reRepeated(st,
                    reUnary(op, st.stack[Len(st.stack)], min, max,
                            st.flags.nonGreedy = reRepeatLazy(p, after)),
                    IF reRepeatLazy(p, after) THEN after + 1 ELSE after)

\* parseInt: a decimal integer without leading zeros; -1 when it is too big
reNoInt == [ok |-> FALSE, n |-> 0, t |-> 0]
RECURSIVE reDecimal(_)
reDecimal(ds) ==
    IF ds = << >> THEN 0 ELSE reDecimal(SubSeq(ds, 1, Len(ds) - 1)) * 10 + DigitValue(ds[Len(ds)])
reDigitsEnd(p, t) == Least({j \in t..(Len(p) + 1) : j > Len(p) \/ ~IsDigit(p[j])})
parseInt(p, t) ==
    IF t > Len(p) \/ ~IsDigit(p[t]) THEN reNoInt
    ELSE IF t + 1 <= Len(p) /\ p[t] = "0" /\ IsDigit(p[t + 1]) THEN reNoInt
    ELSE [ok |-> TRUE,
          n |-> IF reDigitsEnd(p, t) - t >= 10 THEN -1
                ELSE reDecimal(SubSeq(p, t, reDigitsEnd(p, t) - 1)),
          t |-> reDigitsEnd(p, t)]

\* parseRepeat: {min}, {min,} (max = -1) or {min,max} at character t
reNoRepeat == [ok |-> FALSE, min |-> 0, max |-> 0, t |-> 0]
reRepeatClose(p, min, max, t) ==
    IF t > Len(p) \/ p[t] # "}" THEN reNoRepeat
    ELSE [ok |-> TRUE, min |-> min, max |-> max, t |-> t + 1]
reRepeatMax(p, min, x) ==
    IF ~x.ok THEN reNoRepeat
    ELSE reRepeatClose(p, IF x.n < 0 THEN -1 ELSE min, x.n, x.t)
reRepeatMin(p, m) ==
    IF ~m.ok THEN reNoRepeat
    ELSE IF m.t > Len(p) THEN reNoRepeat
    ELSE IF p[m.t] # "," THEN reRepeatClose(p, m.n, m.n, m.t)
    ELSE IF m.t + 1 > Len(p) THEN reNoRepeat
    ELSE IF p[m.t + 1] = "}" THEN reRepeatClose(p, m.n, -1, m.t + 1)
    ELSE reRepeatMax(p, m.n, parseInt(p, m.t + 1))
parseRepeat(p, t) == reRepeatMin(p, parseInt(p, t + 1))

\* the '{' of the pattern: a repetition, or the brace itself when it
\* does not read as one
reBrace(p, st, r) ==
    IF ~r.ok THEN reLiteral(st, Ord("{"), st.t + 1)
    ELSE IF r.min < 0 \/ r.min > 1000 \/ r.max > 1000 \/ (r.max >= 0 /\ r.min > r.max)
    THEN reError
    ELSE repeat(p, st, "repeat", r.min, r.max, r.t)

\* parseEscape: the code point of the escape at character t (a backslash)
reNoEscape == [ok |-> FALSE, r |-> 0, t |-> 0]
reEscaped(r, t) == [ok |-> TRUE, r |-> r, t |-> t]
reIsOctal(p, t) == t <= Len(p) /\ Ord(p[t]) \in 48..55
reOctal3(p, r, t) ==
    IF reIsOctal(p, t) THEN reEscaped(r * 8 + DigitValue(p[t]), t + 1) ELSE reEscaped(r, t)
reOctal(p, r, t) ==
    IF reIsOctal(p, t) THEN reOctal3(p, r * 8 + DigitValue(p[t]), t + 1) ELSE reEscaped(r, t)
RECURSIVE reHex(_)
reHex(ds) ==
    IF ds = << >> THEN 0 ELSE reHex(SubSeq(ds, 1, Len(ds) - 1)) * 16 + DigitValue(ds[Len(ds)])
reHexEnd(p, t) == Least({j \in t..(Len(p) + 1) : j > Len(p) \/ ~IsHexDigit(p[j])})
reHexSignificant(ds) ==
    SubSeq(ds, Least({i \in 1..(Len(ds) + 1) : i > Len(ds) \/ ds[i] # "0"}), Len(ds))
reHexRune(ds, t) ==
    IF Len(ds) > 6 THEN reNoEscape
    ELSE IF reHex(ds) > 1114111 THEN reNoEscape
    ELSE reEscaped(reHex(ds), t)
reHexBraced(p, t, end) ==
    IF end > Len(p) \/ p[end] # "}" \/ end = t THEN reNoEscape
    ELSE reHexRune(reHexSignificant(SubSeq(p, t, end - 1)), end + 1)
reHexEscape(p, t) ==
    IF t > Len(p) THEN reNoEscape
    ELSE IF p[t] = "{" THEN reHexBraced(p, t + 1, reHexEnd(p, t + 1))
    ELSE IF t + 1 > Len(p) \/ ~IsHexDigit(p[t]) \/ ~IsHexDigit(p[t + 1]) THEN reNoEscape
    ELSE reEscaped(DigitValue(p[t]) * 16 + DigitValue(p[t + 1]), t + 2)
reEscapeOf(p, c, t) ==
    IF Ord(c) \in 49..55 THEN IF reIsOctal(p, t) THEN reOctal(p, DigitValue(c), t) ELSE reNoEscape
    ELSE IF c = "0" THEN reOctal(p, 0, t)
    ELSE IF c = "x" THEN reHexEscape(p, t)
    ELSE IF c = "a" THEN reEscaped(7, t)
    ELSE IF c = "f" THEN reEscaped(12, t)
    ELSE IF c = "n" THEN reEscaped(10, t)
    ELSE IF c = "r" THEN reEscaped(13, t)
    ELSE IF c = "t" THEN reEscaped(9, t)
    ELSE IF c = "v" THEN reEscaped(11, t)
    ELSE IF Ord(c) \notin (reDigits \cup reLetters) THEN reEscaped(Ord(c), t)
    ELSE reNoEscape
parseEscape(p, t) ==
    IF t + 1 > Len(p) THEN reNoEscape ELSE reEscapeOf(p, p[t + 1], t + 2)

\* perlGroup: \d \s \w and their negations
reIsPerlClass(p, t) ==
    t + 1 <= Len(p) /\ p[t] = "\\" /\ p[t + 1] \in {"d", "D", "s", "S", "w", "W"}
rePerlCodes(c) ==
    IF c \in {"d", "D"} THEN reDigits
    ELSE IF c \in {"s", "S"} THEN {9, 10, 12, 13, 32}
    ELSE reDigits \cup reLetters \cup {95}
parsePerlClassEscape(p, t, flags) ==
    reGroup(rePerlCodes(p[t + 1]), p[t + 1] \in {"D", "S", "W"}, flags.foldCase)

\* unicodeTable: the ASCII codes of a general category or a script of
\* Unicode 15.  unicode.Categories:
unicodeCategories ==
    << [name |-> << "C" >>, codes |-> (0..31) \cup {127}],
       [name |-> << "C", "c" >>, codes |-> (0..31) \cup {127}],
       [name |-> << "C", "f" >>, codes |-> {}],
       [name |-> << "C", "o" >>, codes |-> {}],
       [name |-> << "C", "s" >>, codes |-> {}],
       [name |-> << "L" >>, codes |-> reLetters],
       [name |-> << "L", "l" >>, codes |-> 97..122],
       [name |-> << "L", "m" >>, codes |-> {}],
       [name |-> << "L", "o" >>, codes |-> {}],
       [name |-> << "L", "t" >>, codes |-> {}],
       [name |-> << "L", "u" >>, codes |-> 65..90],
       [name |-> << "M" >>, codes |-> {}],
       [name |-> << "M", "c" >>, codes |-> {}],
       [name |-> << "M", "e" >>, codes |-> {}],
       [name |-> << "M", "n" >>, codes |-> {}],
       [name |-> << "N" >>, codes |-> reDigits],
       [name |-> << "N", "d" >>, codes |-> reDigits],
       [name |-> << "N", "l" >>, codes |-> {}],
       [name |-> << "N", "o" >>, codes |-> {}],
       [name |-> << "P" >>,
        codes |-> {33, 34, 35, 37, 38, 39, 40, 41, 42, 44, 45, 46, 47, 58, 59, 63, 64,
                   91, 92, 93, 95, 123, 125}],
       [name |-> << "P", "c" >>, codes |-> {95}],
       [name |-> << "P", "d" >>, codes |-> {45}],
       [name |-> << "P", "e" >>, codes |-> {41, 93, 125}],
       [name |-> << "P", "f" >>, codes |-> {}],
       [name |-> << "P", "i" >>, codes |-> {}],
       [name |-> << "P", "o" >>,
        codes |-> {33, 34, 35, 37, 38, 39, 42, 44, 46, 47, 58, 59, 63, 64, 92}],
       [name |-> << "P", "s" >>, codes |-> {40, 91, 123}],
       [name |-> << "S" >>, codes |-> {36, 43, 60, 61, 62, 94, 96, 124, 126}],
       [name |-> << "S", "c" >>, codes |-> {36}],
       [name |-> << "S", "k" >>, codes |-> {94, 96}],
       [name |-> << "S", "m" >>, codes |-> {43, 60, 61, 62, 124, 126}],
       [name |-> << "S", "o" >>, codes |-> {}],
       [name |-> << "Z" >>, codes |-> {32}],
       [name |-> << "Z", "l" >>, codes |-> {}],
       [name |-> << "Z", "p" >>, codes |-> {}],
       [name |-> << "Z", "s" >>, codes |-> {32}] >>

\* unicode.Scripts: the scripts without an ASCII character
unicodeScriptNames ==
    {
      << "A", "d", "l", "a", "m" >>,
      << "A", "h", "o", "m" >>,
      << "A", "n", "a", "t", "o", "l", "i", "a", "n", "_", "H", "i", "e", "r", "o", "g", "l", "y", "p", "h", "s" >>,
      << "A", "r", "a", "b", "i", "c" >>,
      << "A", "r", "m", "e", "n", "i", "a", "n" >>,
      << "A", "v", "e", "s", "t", "a", "n" >>,
      << "B", "a", "l", "i", "n", "e", "s", "e" >>,
      << "B", "a", "m", "u", "m" >>,
      << "B", "a", "s", "s", "a", "_", "V", "a", "h" >>,
      << "B", "a", "t", "a", "k" >>,
      << "B", "e", "n", "g", "a", "l", "i" >>,
      << "B", "h", "a", "i", "k", "s", "u", "k", "i" >>,
      << "B", "o", "p", "o", "m", "o", "f", "o" >>,
      << "B", "r", "a", "h", "m", "i" >>,
      << "B", "r", "a", "i", "l", "l", "e" >>,
      << "B", "u", "g", "i", "n", "e", "s", "e" >>,
      << "B", "u", "h", "i", "d" >>,
      << "C", "a", "n", "a", "d", "i", "a", "n", "_", "A", "b", "o", "r", "i", "g", "i", "n", "a", "l" >>,
      << "C", "a", "r", "i", "a", "n" >>,
      << "C", "a", "u", "c", "a", "s", "i", "a", "n", "_", "A", "l", "b", "a", "n", "i", "a", "n" >>,
      << "C", "h", "a", "k", "m", "a" >>,
      << "C", "h", "a", "m" >>,
      << "C", "h", "e", "r", "o", "k", "e", "e" >>,
      << "C", "h", "o", "r", "a", "s", "m", "i", "a", "n" >>,
      << "C", "o", "p", "t", "i", "c" >>,
      << "C", "u", "n", "e", "i", "f", "o", "r", "m" >>,
      << "C", "y", "p", "r", "i", "o", "t" >>,
      << "C", "y", "p", "r", "o", "_", "M", "i", "n", "o", "a", "n" >>,
      << "C", "y", "r", "i", "l", "l", "i", "c" >>,
      << "D", "e", "s", "e", "r", "e", "t" >>,
      << "D", "e", "v", "a", "n", "a", "g", "a", "r", "i" >>,
      << "D", "i", "v", "e", "s", "_", "A", "k", "u", "r", "u" >>,
      << "D", "o", "g", "r", "a" >>,
      << "D", "u", "p", "l", "o", "y", "a", "n" >>,
      << "E", "g", "y", "p", "t", "i", "a", "n", "_", "H", "i", "e", "r", "o", "g", "l", "y", "p", "h", "s" >>,
      << "E", "l", "b", "a", "s", "a", "n" >>,
      << "E", "l", "y", "m", "a", "i", "c" >>,
      << "E", "t", "h", "i", "o", "p", "i", "c" >>,
      << "G", "e", "o", "r", "g", "i", "a", "n" >>,
      << "G", "l", "a", "g", "o", "l", "i", "t", "i", "c" >>,
      << "G", "o", "t", "h", "i", "c" >>,
      << "G", "r", "a", "n", "t", "h", "a" >>,
      << "G", "r", "e", "e", "k" >>,
      << "G", "u", "j", "a", "r", "a", "t", "i" >>,
      << "G", "u", "n", "j", "a", "l", "a", "_", "G", "o", "n", "d", "i" >>,
      << "G", "u", "r", "m", "u", "k", "h", "i" >>,
      << "H", "a", "n" >>,
      << "H", "a", "n", "g", "u", "l" >>,
      << "H", "a", "n", "i", "f", "i", "_", "R", "o", "h", "i", "n", "g", "y", "a" >>,
      << "H", "a", "n", "u", "n", "o", "o" >>,
      << "H", "a", "t", "r", "a", "n" >>,
      << "H", "e", "b", "r", "e", "w" >>,
      << "H", "i", "r", "a", "g", "a", "n", "a" >>,
      << "I", "m", "p", "e", "r", "i", "a", "l", "_", "A", "r", "a", "m", "a", "i", "c" >>,
      << "I", "n", "h", "e", "r", "i", "t", "e", "d" >>,
      << "I", "n", "s", "c", "r", "i", "p", "t", "i", "o", "n", "a", "l", "_", "P", "a", "h", "l", "a", "v", "i" >>,
      << "I", "n", "s", "c", "r", "i", "p", "t", "i", "o", "n", "a", "l", "_", "P", "a", "r", "t", "h", "i", "a", "n" >>,
      << "J", "a", "v", "a", "n", "e", "s", "e" >>,
      << "K", "a", "i", "t", "h", "i" >>,
      << "K", "a", "n", "n", "a", "d", "a" >>,
      << "K", "a", "t", "a", "k", "a", "n", "a" >>,
      << "K", "a", "w", "i" >>,
      << "K", "a", "y", "a", "h", "_", "L", "i" >>,
      << "K", "h", "a", "r", "o", "s", "h", "t", "h", "i" >>,
      << "K", "h", "i", "t", "a", "n", "_", "S", "m", "a", "l", "l", "_", "S", "c", "r", "i", "p", "t" >>,
      << "K", "h", "m", "e", "r" >>,
      << "K", "h", "o", "j", "k", "i" >>,
      << "K", "h", "u", "d", "a", "w", "a", "d", "i" >>,
      << "L", "a", "o" >>,
      << "L", "e", "p", "c", "h", "a" >>,
      << "L", "i", "m", "b", "u" >>,
      << "L", "i", "n", "e", "a", "r", "_", "A" >>,
      << "L", "i", "n", "e", "a", "r", "_", "B" >>,
      << "L", "i", "s", "u" >>,
      << "L", "y", "c", "i", "a", "n" >>,
      << "L", "y", "d", "i", "a", "n" >>,
      << "M", "a", "h", "a", "j", "a", "n", "i" >>,
      << "M", "a", "k", "a", "s", "a", "r" >>,
      << "M", "a", "l", "a", "y", "a", "l", "a", "m" >>,
      << "M", "a", "n", "d", "a", "i", "c" >>,
      << "M", "a", "n", "i", "c", "h", "a", "e", "a", "n" >>,
      << "M", "a", "r", "c", "h", "e", "n" >>,
      << "M", "a", "s", "a", "r", "a", "m", "_", "G", "o", "n", "d", "i" >>,
      << "M", "e", "d", "e", "f", "a", "i", "d", "r", "i", "n" >>,
      << "M", "e", "e", "t", "e", "i", "_", "M", "a", "y", "e", "k" >>,
      << "M", "e", "n", "d", "e", "_", "K", "i", "k", "a", "k", "u", "i" >>,
      << "M", "e", "r", "o", "i", "t", "i", "c", "_", "C", "u", "r", "s", "i", "v", "e" >>,
      << "M", "e", "r", "o", "i", "t", "i", "c", "_", "H", "i", "e", "r", "o", "g", "l", "y", "p", "h", "s" >>,
      << "M", "i", "a", "o" >>,
      << "M", "o", "d", "i" >>,
      << "M", "o", "n", "g", "o", "l", "i", "a", "n" >>,
      << "M", "r", "o" >>,
      << "M", "u", "l", "t", "a", "n", "i" >>,
      << "M", "y", "a", "n", "m", "a", "r" >>,
      << "N", "a", "b", "a", "t", "a", "e", "a", "n" >>,
      << "N", "a", "g", "_", "M", "u", "n", "d", "a", "r", "i" >>,
      << "N", "a", "n", "d", "i", "n", "a", "g", "a", "r", "i" >>,
      << "N", "e", "w", "_", "T", "a", "i", "_", "L", "u", "e" >>,
      << "N", "e", "w", "a" >>,
      << "N", "k", "o" >>,
      << "N", "u", "s", "h", "u" >>,
      << "N", "y", "i", "a", "k", "e", "n", "g", "_", "P", "u", "a", "c", "h", "u", "e", "_", "H", "m", "o", "n", "g" >>,
      << "O", "g", "h", "a", "m" >>,
      << "O", "l", "_", "C", "h", "i", "k", "i" >>,
      << "O", "l", "d", "_", "H", "u", "n", "g", "a", "r", "i", "a", "n" >>,
      << "O", "l", "d", "_", "I", "t", "a", "l", "i", "c" >>,
      << "O", "l", "d", "_", "N", "o", "r", "t", "h", "_", "A", "r", "a", "b", "i", "a", "n" >>,
      << "O", "l", "d", "_", "P", "e", "r", "m", "i", "c" >>,
      << "O", "l", "d", "_", "P", "e", "r", "s", "i", "a", "n" >>,
      << "O", "l", "d", "_", "S", "o", "g", "d", "i", "a", "n" >>,
      << "O", "l", "d", "_", "S", "o", "u", "t", "h", "_", "A", "r", "a", "b", "i", "a", "n" >>,
      << "O", "l", "d", "_", "T", "u", "r", "k", "i", "c" >>,
      << "O", "l", "d", "_", "U", "y", "g", "h", "u", "r" >>,
      << "O", "r", "i", "y", "a" >>,
      << "O", "s", "a", "g", "e" >>,
      << "O", "s", "m", "a", "n", "y", "a" >>,
      << "P", "a", "h", "a", "w", "h", "_", "H", "m", "o", "n", "g" >>,
      << "P", "a", "l", "m", "y", "r", "e", "n", "e" >>,
      << "P", "a", "u", "_", "C", "i", "n", "_", "H", "a", "u" >>,
      << "P", "h", "a", "g", "s", "_", "P", "a" >>,
      << "P", "h", "o", "e", "n", "i", "c", "i", "a", "n" >>,
      << "P", "s", "a", "l", "t", "e", "r", "_", "P", "a", "h", "l", "a", "v", "i" >>,
      << "R", "e", "j", "a", "n", "g" >>,
      << "R", "u", "n", "i", "c" >>,
      << "S", "a", "m", "a", "r", "i", "t", "a", "n" >>,
      << "S", "a", "u", "r", "a", "s", "h", "t", "r", "a" >>,
      << "S", "h", "a", "r", "a", "d", "a" >>,
      << "S", "h", "a", "v", "i", "a", "n" >>,
      << "S", "i", "d", "d", "h", "a", "m" >>,
      << "S", "i", "g", "n", "W", "r", "i", "t", "i", "n", "g" >>,
      << "S", "i", "n", "h", "a", "l", "a" >>,
      << "S", "o", "g", "d", "i", "a", "n" >>,
      << "S", "o", "r", "a", "_", "S", "o", "m", "p", "e", "n", "g" >>,
      << "S", "o", "y", "o", "m", "b", "o" >>,
      << "S", "u", "n", "d", "a", "n", "e", "s", "e" >>,
      << "S", "y", "l", "o", "t", "i", "_", "N", "a", "g", "r", "i" >>,
      << "S", "y", "r", "i", "a", "c" >>,
      << "T", "a", "g", "a", "l", "o", "g" >>,
      << "T", "a", "g", "b", "a", "n", "w", "a" >>,
      << "T", "a", "i", "_", "L", "e" >>,
      << "T", "a", "i", "_", "T", "h", "a", "m" >>,
      << "T", "a", "i", "_", "V", "i", "e", "t" >>,
      << "T", "a", "k", "r", "i" >>,
      << "T", "a", "m", "i", "l" >>,
      << "T", "a", "n", "g", "s", "a" >>,
      << "T", "a", "n", "g", "u", "t" >>,
      << "T", "e", "l", "u", "g", "u" >>,
      << "T", "h", "a", "a", "n", "a" >>,
      << "T", "h", "a", "i" >>,
      << "T", "i", "b", "e", "t", "a", "n" >>,
      << "T", "i", "f", "i", "n", "a", "g", "h" >>,
      << "T", "i", "r", "h", "u", "t", "a" >>,
      << "T", "o", "t", "o" >>,
      << "U", "g", "a", "r", "i", "t", "i", "c" >>,
      << "V", "a", "i" >>,
      << "V", "i", "t", "h", "k", "u", "q", "i" >>,
      << "W", "a", "n", "c", "h", "o" >>,
      << "W", "a", "r", "a", "n", "g", "_", "C", "i", "t", "i" >>,
      << "Y", "e", "z", "i", "d", "i" >>,
      << "Y", "i" >>,
      << "Z", "a", "n", "a", "b", "a", "z", "a", "r", "_", "S", "q", "u", "a", "r", "e" >> }

reNoTable == [ok |-> FALSE, codes |-> {}]
reTable(codes) == [ok |-> TRUE, codes |-> codes]
unicodeTable(name) ==
    IF name = << "A", "n", "y" >> THEN reTable(reASCII)
    ELSE IF \E i \in DOMAIN unicodeCategories : unicodeCategories[i].name = name
    THEN reTable(unicodeCategories[CHOOSE i \in DOMAIN unicodeCategories :
                                       unicodeCategories[i].name = name].codes)
    ELSE IF name = << "L", "a", "t", "i", "n" >> THEN reTable(reLetters)
    ELSE IF name = << "C", "o", "m", "m", "o", "n" >> THEN reTable(reASCII \ reLetters)
    ELSE IF name \in unicodeScriptNames THEN reTable({})
    ELSE reNoTable

\* parseUnicodeClass: \pN, \p{Name}, \PN, \P{Name}, \p{^Name} at character t
reNoClass == [ok |-> FALSE, codes |-> {}, t |-> 0]
reIsUnicodeClass(p, t) == t + 1 <= Len(p) /\ p[t] = "\\" /\ p[t + 1] \in {"p", "P"}
reUnicodeTable(tab, negated, foldCase, t) ==
    IF ~tab.ok THEN reNoClass
    ELSE [ok |-> TRUE, codes |-> reGroup(tab.codes, negated, foldCase), t |-> t]
reUnicodeNamed(name, negated, foldCase, t) ==
    IF name # << >> /\ name[1] = "^"
    THEN reUnicodeTable(unicodeTable(Tail(name)), ~negated, foldCase, t)
    ELSE reUnicodeTable(unicodeTable(name), negated, foldCase, t)
parseUnicodeClass(p, t, flags) ==
    IF t + 2 > Len(p) THEN reNoClass
    ELSE IF p[t + 2] # "{"
    THEN reUnicodeNamed(<< p[t + 2] >>, p[t + 1] = "P", flags.foldCase, t + 3)
    ELSE IF \A j \in (t + 3)..Len(p) : p[j] # "}" THEN reNoClass
    ELSE reUnicodeNamed(SubSeq(p, t + 3, Least({j \in (t + 3)..Len(p) : p[j] = "}"}) - 1),
                        p[t + 1] = "P", flags.foldCase,
                        Least({j \in (t + 3)..Len(p) : p[j] = "}"}) + 1)

\* posixGroup: [:alnum:] .. [:xdigit:]
posixGroups ==
    << [name |-> << "a", "l", "n", "u", "m" >>, codes |-> reDigits \cup reLetters],
       [name |-> << "a", "l", "p", "h", "a" >>, codes |-> reLetters],
       [name |-> << "a", "s", "c", "i", "i" >>, codes |-> reASCII],
       [name |-> << "b", "l", "a", "n", "k" >>, codes |-> {9, 32}],
       [name |-> << "c", "n", "t", "r", "l" >>, codes |-> (0..31) \cup {127}],
       [name |-> << "d", "i", "g", "i", "t" >>, codes |-> reDigits],
       [name |-> << "g", "r", "a", "p", "h" >>, codes |-> 33..126],
       [name |-> << "l", "o", "w", "e", "r" >>, codes |-> 97..122],
       [name |-> << "p", "r", "i", "n", "t" >>, codes |-> 32..126],
       [name |-> << "p", "u", "n", "c", "t" >>,
        codes |-> (33..47) \cup (58..64) \cup (91..96) \cup (123..126)],
       [name |-> << "s", "p", "a", "c", "e" >>, codes |-> (9..13) \cup {32}],
       [name |-> << "u", "p", "p", "e", "r" >>, codes |-> 65..90],
       [name |-> << "w", "o", "r", "d" >>, codes |-> reDigits \cup reLetters \cup {95}],
       [name |-> << "x", "d", "i", "g", "i", "t" >>,
        codes |-> reDigits \cup (65..70) \cup (97..102)] >>

\* parseNamedClass: [:name:] or [:^name:] at character t, closed at character end
reIsNamedClass(p, t) ==
    /\ t + 2 <= Len(p) /\ p[t] = "[" /\ p[t + 1] = ":"
    /\ \E j \in (t + 2)..(Len(p) - 1) : p[j] = ":" /\ p[j + 1] = "]"
reNamedEnd(p, t) == Least({j \in (t + 2)..(Len(p) - 1) : p[j] = ":" /\ p[j + 1] = "]"})
rePosixGroup(name, negated, foldCase, t) ==
    IF \E i \in DOMAIN posixGroups : posixGroups[i].name = name
    THEN [ok |-> TRUE,
          codes |-> reGroup(posixGroups[CHOOSE i \in DOMAIN posixGroups :
                                            posixGroups[i].name = name].codes,
                            negated, foldCase),
          t |-> t]
    ELSE reNoClass
parseNamedClass(p, t, flags) ==
    IF reNamedEnd(p, t) > t + 2 /\ p[t + 2] = "^"
    THEN rePosixGroup(SubSeq(p, t + 3, reNamedEnd(p, t) - 1), TRUE, flags.foldCase,
                      reNamedEnd(p, t) + 2)
    ELSE rePosixGroup(SubSeq(p, t + 2, reNamedEnd(p, t) - 1), FALSE, flags.foldCase,
                      reNamedEnd(p, t) + 2)

\* parseClassChar: a character of a class or an escape
parseClassChar(p, t) ==
    IF t > Len(p) THEN reNoEscape
    ELSE IF p[t] = "\\" THEN parseEscape(p, t)
    ELSE reEscaped(Ord(p[t]), t + 1)

\* parseClass: the class [...] at character t.  The class of a character
\* (classItems) is read item by item until the closing bracket; a bracket
\* that comes first is a character of the class
reNoNode == [ok |-> FALSE, re |-> reLeaf("noMatch"), t |-> 0]
RECURSIVE classItems(_, _, _, _, _, _)
classAdded(p, flags, codes, negated, x) ==
    IF ~x.ok THEN reNoNode
    ELSE classItems(p, x.t, flags, codes \cup x.codes, FALSE, negated)
classRangeTo(p, flags, codes, negated, lo, hi) ==
    IF ~hi.ok THEN reNoNode
    ELSE IF hi.r < lo.r THEN reNoNode
    ELSE classItems(p, hi.t, flags, codes \cup reRange(lo.r, hi.r, flags.foldCase),
                    FALSE, negated)
classRange(p, flags, codes, negated, lo) ==
    IF ~lo.ok THEN reNoNode
    ELSE IF lo.t + 1 <= Len(p) /\ p[lo.t] = "-" /\ p[lo.t + 1] # "]"
    THEN classRangeTo(p, flags, codes, negated, lo, parseClassChar(p, lo.t + 1))
    ELSE classItems(p, lo.t, flags, codes \cup reRange(lo.r, lo.r, flags.foldCase),
                    FALSE, negated)
classItems(p, t, flags, codes, first, negated) ==
    IF t <= Len(p) /\ p[t] = "]" /\ ~first
    THEN [ok |-> TRUE,
          re |-> reChars(IF negated THEN reASCII \ codes ELSE codes),
          t |-> t + 1]
    ELSE IF reIsNamedClass(p, t)
    THEN classAdded(p, flags, codes, negated, parseNamedClass(p, t, flags))
    ELSE IF reIsUnicodeClass(p, t)
    THEN classAdded(p, flags, codes, negated, parseUnicodeClass(p, t, flags))
    ELSE IF reIsPerlClass(p, t)
    THEN classAdded(p, flags, codes, negated,
                    [ok |-> TRUE, codes |-> parsePerlClassEscape(p, t, flags), t |-> t + 2])
    ELSE classRange(p, flags, codes, negated, parseClassChar(p, t))
parseClass(p, t, flags) ==
    IF t + 1 <= Len(p) /\ p[t + 1] = "^"
    THEN classItems(p, t + 2, flags, {}, TRUE, TRUE)
    ELSE classItems(p, t + 1, flags, {}, TRUE, FALSE)

\* isValidCaptureName
isValidCaptureName(name) ==
    /\ name # << >>
    /\ \A i \in DOMAIN name : name[i] = "_" \/ Ord(name[i]) \in (reDigits \cup reLetters)

\* parsePerlFlags: the group (?P<name>, (?<name>, (?flags) or (?flags: at
\* character st.t
reNamedCapture(p, st, from, end) ==
    IF ~isValidCaptureName(SubSeq(p, from, end - 1)) THEN reError
    ELSE rePush(st, reLeftParen(1, st.flags), end + 1)
reCaptureName(p, st, from) ==
    IF \A j \in st.t..Len(p) : p[j] # ">" THEN reError
    ELSE reNamedCapture(p, st, from, Least({j \in st.t..Len(p) : p[j] = ">"}))
reSetFlag(flags, c, on) ==
    IF c = "i" THEN [flags EXCEPT !.foldCase = on]
    ELSE IF c = "m" THEN [flags EXCEPT !.oneLine = ~on]
    ELSE IF c = "s" THEN [flags EXCEPT !.dotNL = on]
    ELSE [flags EXCEPT !.nonGreedy = on]
RECURSIVE reFlagChars(_, _, _, _, _, _)
reFlagChars(p, st, t, flags, negative, sawFlag) ==
    IF t > Len(p) THEN reError
    ELSE IF p[t] \in {"i", "m", "s", "U"}
    THEN reFlagChars(p, st, t + 1, reSetFlag(flags, p[t], ~negative), negative, TRUE)
    ELSE IF p[t] = "-"
    THEN IF negative THEN reError ELSE reFlagChars(p, st, t + 1, flags, TRUE, FALSE)
    ELSE IF p[t] \in {":", ")"}
    THEN IF negative /\ ~sawFlag THEN reError
         ELSE IF p[t] = ":"
         THEN [rePush(st, reLeftParen(0, st.flags), t + 1) EXCEPT !.flags = flags]
         ELSE [st EXCEPT !.t = t + 1, !.flags = flags, !.lastRepeat = FALSE]
    ELSE reError
parsePerlFlags(p, st) ==
    IF Len(p) - st.t + 1 > 4 /\ p[st.t + 2] = "P" /\ p[st.t + 3] = "<"
    THEN reCaptureName(p, st, st.t + 4)
    ELSE IF Len(p) - st.t + 1 > 3 /\ p[st.t + 2] = "<"
    THEN reCaptureName(p, st, st.t + 3)
    ELSE reFlagChars(p, st, st.t + 2, st.flags, FALSE, FALSE)

\* \Q ... \E: the characters between are literals
reQuotedEnd(p, t) ==
    IF \E j \in t..(Len(p) - 1) : p[j] = "\\" /\ p[j + 1] = "E"
    THEN Least({j \in t..(Len(p) - 1) : p[j] = "\\" /\ p[j + 1] = "E"})
    ELSE Len(p) + 1
reQuoted(p, st, t, end) ==
    [st EXCEPT !.stack = @ \o [i \in 1..(end - t) |->
                                  reChars(reRange(Ord(p[t + i - 1]), Ord(p[t + i - 1]),
                                                  st.flags.foldCase))],
               !.t = IF end > Len(p) THEN end ELSE end + 2,
               !.lastRepeat = FALSE]

\* the backslash of the pattern
reClassPushed(st, x) == IF ~x.ok THEN reError ELSE rePush(st, reChars(x.codes), x.t)
reEscapePushed(st, x) == IF ~x.ok THEN reError ELSE reLiteral(st, x.r, x.t)
reBackslash(p, st) ==
    IF st.t + 1 <= Len(p) /\ p[st.t + 1] = "A" THEN rePush(st, reLeaf("beginText"), st.t + 2)
    ELSE IF st.t + 1 <= Len(p) /\ p[st.t + 1] = "b"
    THEN rePush(st, reLeaf("wordBoundary"), st.t + 2)
    ELSE IF st.t + 1 <= Len(p) /\ p[st.t + 1] = "B"
    THEN rePush(st, reLeaf("noWordBoundary"), st.t + 2)
    ELSE IF st.t + 1 <= Len(p) /\ p[st.t + 1] = "C" THEN reError
    ELSE IF st.t + 1 <= Len(p) /\ p[st.t + 1] = "Q"
    THEN reQuoted(p, st, st.t + 2, reQuotedEnd(p, st.t + 2))
    ELSE IF st.t + 1 <= Len(p) /\ p[st.t + 1] = "z" THEN rePush(st, reLeaf("endText"), st.t + 2)
    ELSE IF reIsUnicodeClass(p, st.t)
    THEN reClassPushed(st, parseUnicodeClass(p, st.t, st.flags))
    ELSE IF reIsPerlClass(p, st.t)
    THEN rePush(st, reChars(parsePerlClassEscape(p, st.t, st.flags)), st.t + 2)
    ELSE reEscapePushed(st, parseEscape(p, st.t))

\* one turn of the loop of parse, on the character at st.t
reClassParsed(st, x) == IF ~x.ok THEN reError ELSE rePush(st, x.re, x.t)
reToken(p, st, c) ==
    IF c = "("
    THEN IF st.t + 1 <= Len(p) /\ p[st.t + 1] = "?" THEN parsePerlFlags(p, st)
         ELSE rePush(st, reLeftParen(1, st.flags), st.t + 1)
    ELSE IF c = "|" THEN parseVerticalBar(st)
    ELSE IF c = ")" THEN parseRightParen(st)
    ELSE IF c = "^"
    THEN rePush(st, reLeaf(IF st.flags.oneLine THEN "beginText" ELSE "beginLine"), st.t + 1)
    ELSE IF c = "$"
    THEN rePush(st, reLeaf(IF st.flags.oneLine THEN "endText" ELSE "endLine"), st.t + 1)
    ELSE IF c = "."
    THEN rePush(st, reChars(IF st.flags.dotNL THEN reASCII ELSE reASCII \ {10}), st.t + 1)
    ELSE IF c = "[" THEN reClassParsed(st, parseClass(p, st.t, st.flags))
    ELSE IF c = "*" THEN repeat(p, st, "star", 0, 0, st.t + 1)
    ELSE IF c = "+" THEN repeat(p, st, "plus", 0, 0, st.t + 1)
    ELSE IF c = "?" THEN repeat(p, st, "quest", 0, 0, st.t + 1)
    ELSE IF c = "{" THEN reBrace(p, st, parseRepeat(p, st.t))
    ELSE IF c = "\\" THEN reBackslash(p, st)
    ELSE reLiteral(st, Ord(c), st.t + 1)

RECURSIVE reTokens(_, _)
reTokens(p, st) ==
    IF ~st.ok \/ st.t > Len(p) THEN st ELSE reTokens(p, reToken(p, st, p[st.t]))

\* parse: the syntax tree of the pattern, or an error
reParsed(stack) ==
    IF Len(stack) # 1 THEN [err |-> TRUE, re |-> reLeaf("noMatch")]
    ELSE [err |-> FALSE, re |-> stack[1]]
reParseEnd(st) ==
    IF ~st.ok THEN [err |-> TRUE, re |-> reLeaf("noMatch")] ELSE reParsed(reClosed(st.stack))
parse(p) == reParseEnd(reTokens(p, reStart))

\* simplify1
simplify1(op, greedy, sub) ==
    IF sub.op = "emptyMatch" THEN sub
    ELSE IF op = sub.op /\ greedy = sub.greedy THEN sub
    ELSE reUnary(op, sub, 0, 0, greedy)

\* the nesting (x(x(x)?)?)? of the last max - min copies of x{min,max}
RECURSIVE reSuffix(_, _, _)
reSuffix(sub, greedy, n) ==
    IF n = 1 THEN simplify1("quest", greedy, sub)
    ELSE simplify1("quest", greedy, reList("concat", << sub, reSuffix(sub, greedy, n - 1) >>))

reCopies(sub, n) == [i \in 1..n |-> sub]

\* Simplify of a repetition x{min,max}, x simplified
reSimplifiedRepeat(re, sub) ==
    IF re.min = 0 /\ re.max = 0 THEN reLeaf("emptyMatch")
    ELSE IF re.max = -1
    THEN IF re.min = 0 THEN simplify1("star", re.greedy, sub)
         ELSE IF re.min = 1 THEN simplify1("plus", re.greedy, sub)
         ELSE reList("concat",
                     Append(reCopies(sub, re.min - 1), simplify1("plus", re.greedy, sub)))
    ELSE IF re.min = 1 /\ re.max = 1 THEN sub
    ELSE IF re.max > re.min
    THEN IF re.min = 0 THEN reSuffix(sub, re.greedy, re.max)
         ELSE reList("concat",
                     Append(reCopies(sub, re.min), reSuffix(sub, re.greedy, re.max - re.min)))
    ELSE IF re.min > 0 THEN reList("concat", reCopies(sub, re.min))
    ELSE reLeaf("noMatch")

\* Simplify: the tree without counted repetitions
RECURSIVE simplify(_)
simplify(re) ==
    IF re.op \in {"capture", "concat", "alternate"}
    THEN [re EXCEPT !.sub = [i \in DOMAIN re.sub |-> simplify(re.sub[i])]]
    ELSE IF re.op \in {"star", "plus", "quest"}
    THEN simplify1(re.op, re.greedy, simplify(re.sub[1]))
    ELSE IF re.op = "repeat"
    THEN IF re.min = 0 /\ re.max = 0 THEN reLeaf("emptyMatch")
         ELSE reSimplifiedRepeat(re, simplify(re.sub[1]))
    ELSE re

\* syntax.IsWordChar, and the word boundary between character pos and the next
reIsWordBoundary(s, pos) ==
    (pos > 0 /\ IsWordChar(s[pos])) # (pos < Len(s) /\ IsWordChar(s[pos + 1]))

\* a sequence without the later copies of its elements
reIsEnd(e) == e >= 0
reUniq(q) ==
    SelectSeq([i \in DOMAIN q |-> IF \E j \in 1..(i - 1) : q[j] = q[i] THEN -1 ELSE q[i]],
              reIsEnd)

\* The ends of the matches of a tree that begin after the first pos
\* characters of s, the preferred end first: an alternation prefers its
\* first branch, a greedy repetition prefers one more turn, and a turn of a
\* repetition that matches no character ends the repetition.
RECURSIVE reEnds(_, _, _), reEndsAll(_, _, _), reLoop(_, _, _, _)
reEach(re, s, starts) == reUniq(Flatten([i \in DOMAIN starts |-> reEnds(re, s, starts[i])]))
reEndsAll(subs, s, starts) ==
    IF subs = << >> THEN starts ELSE reEndsAll(Tail(subs), s, reEach(subs[1], s, starts))
rePrefer(greedy, more, done) == reUniq(IF greedy THEN more \o done ELSE done \o more)
reTurns(x, greedy, s, from, ends) ==
    Flatten([i \in DOMAIN ends |->
                IF ends[i] = from THEN << >> ELSE reLoop(x, greedy, s, ends[i])])
reLoop(x, greedy, s, e) ==
    rePrefer(greedy, reTurns(x, greedy, s, e, reEnds(x, s, e)), << e >>)
reFirstTurn(x, greedy, s, pos, ends) ==
    reUniq(Flatten([i \in DOMAIN ends |->
                       IF ends[i] = pos THEN << pos >> ELSE reLoop(x, greedy, s, ends[i])]))
rePlus(x, greedy, s, pos) == reFirstTurn(x, greedy, s, pos, reEnds(x, s, pos))
reEnds(re, s, pos) ==
    IF re.op = "charClass"
    THEN IF pos < Len(s) /\ Ord(s[pos + 1]) \in re.codes THEN << pos + 1 >> ELSE << >>
    ELSE IF re.op = "emptyMatch" THEN << pos >>
    ELSE IF re.op = "beginText" THEN IF pos = 0 THEN << pos >> ELSE << >>
    ELSE IF re.op = "endText" THEN IF pos = Len(s) THEN << pos >> ELSE << >>
    ELSE IF re.op = "beginLine"
    THEN IF pos = 0 \/ s[pos] = "^J" THEN << pos >> ELSE << >>
    ELSE IF re.op = "endLine"
    THEN IF pos = Len(s) \/ s[pos + 1] = "^J" THEN << pos >> ELSE << >>
    ELSE IF re.op = "wordBoundary" THEN IF reIsWordBoundary(s, pos) THEN << pos >> ELSE << >>
    ELSE IF re.op = "noWordBoundary"
    THEN IF reIsWordBoundary(s, pos) THEN << >> ELSE << pos >>
    ELSE IF re.op = "capture" THEN reEnds(re.sub[1], s, pos)
    ELSE IF re.op = "concat" THEN reEndsAll(re.sub, s, << pos >>)
    ELSE IF re.op = "alternate"
    THEN reUniq(Flatten([i \in DOMAIN re.sub |-> reEnds(re.sub[i], s, pos)]))
    ELSE IF re.op = "quest" THEN rePrefer(re.greedy, reEnds(re.sub[1], s, pos), << pos >>)
    ELSE IF re.op = "star"
    THEN rePrefer(re.greedy, rePlus(re.sub[1], re.greedy, s, pos), << pos >>)
    ELSE IF re.op = "plus" THEN rePlus(re.sub[1], re.greedy, s, pos)
    ELSE << >>

\* the leftmost match that begins after the first `from` characters or
\* later: << begin, end >>, or << >> without one
reMatches(re, s, from) == {b \in from..Len(s) : reEnds(re, s, b) # << >>}
reFind(re, s, from) ==
    IF reMatches(re, s, from) = {} THEN << >>
    ELSE << Least(reMatches(re, s, from)), reEnds(re, s, Least(reMatches(re, s, from)))[1] >>

\* the loop of (*Regexp).replaceAll: the text from lastMatchEnd on, with
\* the matches found from searchPos on replaced.  An empty match right
\* after a match is not replaced, and the search moves on by a character
\* at least.
RECURSIVE replaceAll(_, _, _, _, _)
reAdvance(searchPos, end) == IF searchPos + 1 > end THEN searchPos + 1 ELSE end
reReplaced(re, s, repl, searchPos, lastMatchEnd, a) ==
    IF a = << >> THEN SubSeq(s, lastMatchEnd + 1, Len(s))
    ELSE SubSeq(s, lastMatchEnd + 1, a[1])
         \o (IF a[2] > lastMatchEnd \/ a[1] = 0 THEN repl ELSE << >>)
         \o replaceAll(re, s, repl, reAdvance(searchPos, a[2]), a[2])
replaceAll(re, s, repl, searchPos, lastMatchEnd) ==
    IF searchPos > Len(s) THEN SubSeq(s, lastMatchEnd + 1, Len(s))
    ELSE reReplaced(re, s, repl, searchPos, lastMatchEnd, reFind(re, s, searchPos))

\* regexp.Compile: the syntax tree of the pattern, or an error.  The tree
\* is simplified when it is applied.
Compile(expr) == parse(expr)

\* (*Regexp).ReplaceAllString for a replacement without a dollar sign
ReplaceAllString(re, src, repl) == replaceAll(simplify(re), src, repl, 0, 0)

\* fmt.Sprintf("^%s\\b", label)
labelPattern(label) == << "^" >> \o label \o << "\\", "b" >>

\* a label address that counts lines instead of bytes
labelAddressUnscaled(lines) == Len(lines) + reservedBytes

\* the address recorded for a label: that of the next line to be emitted
labelAddress(lines) == Len(lines) * instructionBytes + reservedBytes

\* labels[r] = address: the label map gets the compiled pattern r (kept
\* with the label's name) and the address as decimal text
labelCompiled(label, r, labels, lines, debug) ==
    IF r.err THEN PreprocessError
    ELSE Preprocessed(Append(labels, [name |-> label, re |-> r.re,
                                      addr |-> Sprintd(labelAddress(lines))]),
                      IF debug
                      THEN Append(lines, << MnemonicOf(Nop), << >>, << >> >>)
                      ELSE lines)

\* a line that is a label: the label without its colons, which holds no
\* space and whose pattern compiles
preprocessLabel(label, labels, lines, debug) ==
    IF \E i \in DOMAIN label : IsSpace(label[i]) THEN PreprocessError
    ELSE labelCompiled(label, Compile(labelPattern(label)), labels, lines, debug)

\* the `byte` lines of a string literal, in reverse order so that the top
\* value on the stack corresponds to the start of the string
stringBytes(bytes, a1) ==
    [i \in 1..Len(bytes) |->
        << MnemonicOf(Byte), Sprintd(Ord(bytes[Len(bytes) + 1 - i])), a1 >>]

\* a line that is an instruction, split.  The argument of a `const` that
\* starts and ends with a double quote is sliced as bytes[1 : len(bytes)-1],
\* which panics when the argument is the one quote.
preprocessInstruction(s, labels, lines) ==
    IF s.err THEN PreprocessError
    ELSE IF /\ s.code = MnemonicOf(Const)
            /\ HasPrefix(s.a0, << "\"" >>)
            /\ HasSuffix(s.a0, << "\"" >>)
    THEN IF Len(s.a0) < 2 THEN PreprocessPanic
         ELSE Preprocessed(labels,
                           lines \o stringBytes(SubSeq(s.a0, 2, Len(s.a0) - 1), s.a1))
    ELSE Preprocessed(labels, Append(lines, << s.code, s.a0, s.a1 >>))

preprocessTrimmed(line, labels, lines, debug) ==
    IF line = << >> THEN Preprocessed(labels, lines)
    ELSE IF HasSuffix(line, << ":" >>)
    THEN preprocessLabel(SelectSeq(line, NotColon), labels, lines, debug)
    ELSE preprocessInstruction(splitLine(line), labels, lines)

\* Responsible for removing comments and whitespace and splitting an
\* instruction into (instruction, argument0, argument1) triples.
preprocessLine(raw, labels, lines, debug) ==
    preprocessTrimmed(TrimSpace(commentsRemoved(raw)), labels, lines, debug)

\* the first pass of CompileSourceFromBuffer over the lines
RECURSIVE preprocessAll(_, _, _, _)
preprocessRest(rest, r, debug) ==
    IF r.err THEN r ELSE preprocessAll(rest, r.labels, r.lines, debug)

preprocessAll(src, labels, lines, debug) ==
    IF src = << >> THEN Preprocessed(labels, lines)
    ELSE preprocessRest(Tail(src), preprocessLine(Head(src), labels, lines, debug), debug)

\* label.ReplaceAllString(arg, lineNum) for the regular expression that
\* preprocessLine compiled from ^label\b
replaceLabel(label, arg) == ReplaceAllString(label.re, arg, label.addr)

\* Replace all labels with their instruction address, in the order given
RECURSIVE replaceLabels(_, _, _)
replaceLabels(labels, order, arg) ==
    IF order = << >> THEN arg
    ELSE replaceLabels(labels, Tail(order), replaceLabel(labels[Head(order)], arg))

ParseError == [err |-> TRUE, val |-> -1]

\* the 32-bit word with the digits' value, 0 <= value < 2^32 (digits are
\* at most 10 decimal digits without leading zeros, split 5 + 5)
RECURSIVE DigitsValue(_, _)
DigitsValue(ds, base) ==
    IF ds = << >> THEN 0
    ELSE DigitsValue(SubSeq(ds, 1, Len(ds) - 1), base) * base + DigitValue(ds[Len(ds)])

RECURSIVE DropLeadingZeros(_)
DropLeadingZeros(ds) ==
    IF Len(ds) > 1 /\ ds[1] = "0" THEN DropLeadingZeros(Tail(ds)) ELSE ds

\* the word of ten decimal digits, the first five as hi and the last five
\* as lo, when it fits
decimalWord(hi, lo, negative) ==
    IF negative
    THEN IF hi < 21474 \/ (hi = 21474 /\ lo <= 83648)
         THEN [err |-> FALSE, val |-> (0 - hi) * 100000 - lo]
         ELSE ParseError
    ELSE IF hi < 21474 \/ (hi = 21474 /\ lo <= 83647)
    THEN [err |-> FALSE, val |-> hi * 100000 + lo]
    ELSE IF hi < 42949 \/ (hi = 42949 /\ lo <= 67295)
    THEN [err |-> FALSE,
          val |-> ((hi - 42949) * 50000 + (lo - 67296)) + (hi - 42949) * 50000]
    ELSE ParseError

decimalDigits(ds, negative) ==
    IF Len(ds) <= 9
    THEN [err |-> FALSE, val |-> IF negative THEN 0 - DigitsValue(ds, 10)
                                 ELSE DigitsValue(ds, 10)]
    ELSE IF Len(ds) > 10 THEN ParseError
    ELSE decimalWord(DigitsValue(SubSeq(ds, 1, 5), 10), DigitsValue(SubSeq(ds, 6, 10), 10),
                     negative)

\* strconv.ParseUint(s, 10, 32) and, with negative, strconv.ParseInt of the
\* digits after the sign; the result as uint32
parseDecimal(s, negative) ==
    IF s = << >> \/ \E i \in DOMAIN s : ~IsDigit(s[i]) THEN ParseError
    ELSE decimalDigits(DropLeadingZeros(s), negative)

\* the word of up to eight hexadecimal digits, the last four as lo and the
\* ones before as hi, when it fits
hexWord(hi, lo, negative) ==
    IF negative
    THEN IF hi < 32768 \/ (hi = 32768 /\ lo = 0)
         THEN [err |-> FALSE, val |-> (0 - hi) * 65536 - lo]
         ELSE ParseError
    ELSE [err |-> FALSE, val |-> (IF hi >= 32768 THEN hi - 65536 ELSE hi) * 65536 + lo]

hexDigits(ds, negative) ==
    IF Len(ds) > 8 THEN ParseError
    ELSE IF Len(ds) <= 4 THEN hexWord(0, DigitsValue(ds, 16), negative)
    ELSE hexWord(DigitsValue(SubSeq(ds, 1, Len(ds) - 4), 16),
                 DigitsValue(SubSeq(ds, Len(ds) - 3, Len(ds)), 16), negative)

\* the same in base 16
parseHex(s, negative) ==
    IF s = << >> \/ \E i \in DOMAIN s : ~IsHexDigit(s[i]) THEN ParseError
    ELSE hexDigits(DropLeadingZeros(s), negative)

\* strconv.ParseInt for a number that starts with "-", strconv.ParseUint
\* otherwise
parseNumber(body, hex) ==
    IF HasPrefix(body, << "-" >>)
    THEN IF hex THEN parseHex(Tail(body), TRUE) ELSE parseDecimal(Tail(body), TRUE)
    ELSE IF hex THEN parseHex(body, FALSE) ELSE parseDecimal(body, FALSE)

\* ------------------------------------------------------------------------
\* strconv.ParseFloat(s, 32).  The value of a literal is a natural number
\* times a power of ten or of two; it is kept exactly, as a quotient of two
\* natural numbers of any size, and rounded once, to nearest, ties to even.
\* ------------------------------------------------------------------------
\* a natural number of any size: its digits in base BigBase, the least
\* significant first, the most significant not 0
BigBaseBits == BitLen(32767)
BigBase == Pow2(BigBaseBits)

\* x * m + c for a small m > 0 and a small c
RECURSIVE BigMulAdd(_, _, _)
BigMulAdd(x, m, c) ==
    IF x = << >>
    THEN IF c = 0 THEN << >> ELSE << c % BigBase >> \o BigMulAdd(<< >>, m, c \div BigBase)
    ELSE << (x[1] * m + c) % BigBase >>
         \o BigMulAdd(Tail(x), m, (x[1] * m + c) \div BigBase)

BigDouble(x) == BigMulAdd(x, 2, 0)

\* x * 10^n, four places at a time
RECURSIVE BigTimesPow10(_, _)
BigTimesPow10(x, n) ==
    IF n >= 4 THEN BigMulAdd(BigTimesPow10(x, n - 4), 10000, 0)
    ELSE IF n = 3 THEN BigMulAdd(x, 1000, 0)
    ELSE IF n = 2 THEN BigMulAdd(x, 100, 0)
    ELSE IF n = 1 THEN BigMulAdd(x, 10, 0)
    ELSE x

\* x * 2^n for x > 0
BigShl(x, n) ==
    [i \in 1..(n \div BigBaseBits) |-> 0] \o BigMulAdd(x, Pow2(n % BigBaseBits), 0)

\* the number of bits of x
BigBitLen(x) == IF x = << >> THEN 0 ELSE BigBaseBits * (Len(x) - 1) + BitLen(x[Len(x)])

\* the number with the digits ds in the base (10 or 16), the most
\* significant first, three digits at a time
RECURSIVE BigOfDigits(_, _)
BigOfDigits(ds, base) ==
    IF Len(ds) >= 3
    THEN BigMulAdd(BigOfDigits(SubSeq(ds, 1, Len(ds) - 3), base), base * base * base,
                   (ds[Len(ds) - 2] * base + ds[Len(ds) - 1]) * base + ds[Len(ds)])
    ELSE IF Len(ds) = 2 THEN BigMulAdd(<< >>, base, ds[1] * base + ds[2])
    ELSE IF Len(ds) = 1 THEN BigMulAdd(<< >>, base, ds[1])
    ELSE << >>

BigLess(x, y) ==
    \/ Len(x) < Len(y)
    \/ /\ Len(x) = Len(y)
       /\ \E i \in DOMAIN x : x[i] < y[i] /\ \A j \in (i + 1)..Len(x) : x[j] = y[j]

RECURSIVE BigTrim(_)
BigTrim(x) ==
    IF x # << >> /\ x[Len(x)] = 0 THEN BigTrim(SubSeq(x, 1, Len(x) - 1)) ELSE x

RECURSIVE BigSubLimbs(_, _, _)
BigSubLimbs(x, y, borrow) ==
    IF x = << >> THEN << >>
    ELSE IF y = << >>
    THEN << (x[1] - borrow) % BigBase >>
         \o BigSubLimbs(Tail(x), << >>, IF x[1] - borrow < 0 THEN 1 ELSE 0)
    ELSE << (x[1] - y[1] - borrow) % BigBase >>
         \o BigSubLimbs(Tail(x), Tail(y), IF x[1] - y[1] - borrow < 0 THEN 1 ELSE 0)

\* x - y for x >= y
BigSub(x, y) == BigTrim(BigSubLimbs(x, y, 0))

\* a value n / d * 2^e with n and d of the same number of bits, brought to
\* d <= n < 2 * d
f32Aligned(n, d, e) ==
    IF BigLess(n, d) THEN [n |-> BigDouble(n), d |-> d, e |-> e - 1]
    ELSE [n |-> n, d |-> d, e |-> e]

\* a value n / d * 2^e, n > 0 and d > 0, brought to d <= n < 2 * d
f32Scaled(n, d, e) ==
    IF BigBitLen(n) >= BigBitLen(d)
    THEN f32Aligned(n, BigShl(d, BigBitLen(n) - BigBitLen(d)),
                    e + (BigBitLen(n) - BigBitLen(d)))
    ELSE f32Aligned(BigShl(n, BigBitLen(d) - BigBitLen(n)), d,
                    e - (BigBitLen(d) - BigBitLen(n)))

\* k more bits of the quotient q of r / d, and what remains
RECURSIVE f32Bits(_, _, _, _)
f32Bits(r, d, q, k) ==
    IF k = 0 THEN [q |-> q, r |-> r]
    ELSE IF BigLess(BigDouble(r), d) THEN f32Bits(BigDouble(r), d, 2 * q, k - 1)
    ELSE f32Bits(BigSub(BigDouble(r), d), d, 2 * q + 1, k - 1)

\* the quotient rounded to nearest, ties to even
f32Nearest(b, d) ==
    IF BigLess(d, BigDouble(b.r)) THEN b.q + 1
    ELSE IF BigLess(BigDouble(b.r), d) THEN b.q
    ELSE b.q + (b.q % 2)

\* the pattern of the float32 nearest to the scaled value v; err when it
\* is out of range.  The last place is 2^(e - 23), and 2^-149 below the
\* normal numbers.
f32OfScaled(v, neg) ==
    IF v.e > 127 THEN ParseError
    ELSE IF v.e < 0 - 150 THEN [err |-> FALSE, val |-> f32WithSign(neg, 0)]
    ELSE IF v.e = 0 - 150
    THEN [err |-> FALSE, val |-> f32WithSign(neg, IF BigLess(v.d, v.n) THEN 1 ELSE 0)]
    ELSE IF v.e < 0 - 126
    THEN [err |-> FALSE,
          val |-> f32WithSign(neg, f32Nearest(f32Bits(BigSub(v.n, v.d), v.d, 1, v.e + 149),
                                              v.d))]
    ELSE IF (v.e + 126) * f32Hidden + f32Nearest(f32Bits(BigSub(v.n, v.d), v.d, 1, 23), v.d)
               >= f32Inf
    THEN ParseError
    ELSE [err |-> FALSE,
          val |-> f32WithSign(neg, (v.e + 126) * f32Hidden
                                   + f32Nearest(f32Bits(BigSub(v.n, v.d), v.d, 1, 23), v.d))]

\* the float32 nearest to digits * 10^(dp - Len(digits)): a value from
\* 10^39 on is out of range, one below 10^-46 rounds to zero
f32OfDecimal(digits, dp, neg) ==
    IF digits = << >> THEN [err |-> FALSE, val |-> f32WithSign(neg, 0)]
    ELSE IF dp > 39 THEN ParseError
    ELSE IF dp < 0 - 46 THEN [err |-> FALSE, val |-> f32WithSign(neg, 0)]
    ELSE IF dp >= Len(digits)
    THEN f32OfScaled(f32Scaled(BigTimesPow10(BigOfDigits(digits, 10), dp - Len(digits)),
                               << 1 >>, 0), neg)
    ELSE f32OfScaled(f32Scaled(BigOfDigits(digits, 10),
                               BigTimesPow10(<< 1 >>, Len(digits) - dp), 0), neg)

\* atofHex: the float32 nearest to digits (base 16) * 2^(dp - 4 * Len(digits));
\* a value from 2^128 on is out of range, one below 2^-151 rounds to zero
f32OfHex(digits, dp, neg) ==
    IF digits = << >> THEN [err |-> FALSE, val |-> f32WithSign(neg, 0)]
    ELSE IF dp - 4 > 127 THEN ParseError
    ELSE IF dp < 0 - 150 THEN [err |-> FALSE, val |-> f32WithSign(neg, 0)]
    ELSE f32OfScaled(f32Scaled(BigOfDigits(digits, 16), << 1 >>, dp - 4 * Len(digits)), neg)

\* lower(c) == c | ('x' - 'X') on the letters
IsExpChar(c, hex) == IF hex THEN c \in {"p", "P"} ELSE c \in {"e", "E"}

\* the characters readFloat's loop over the mantissa goes through
IsMantissaChar(c, hex) == c = "_" \/ c = "." \/ IsDigit(c) \/ (hex /\ IsHexDigit(c))

\* where the loop stops: at the first character that is no part of a
\* mantissa, or at a second point
mantissaEnd(s, i, hex) ==
    Least({j \in i..Len(s) : \/ ~IsMantissaChar(s[j], hex)
                             \/ s[j] = "." /\ \E k \in i..(j - 1) : s[k] = "."}
          \cup {Len(s) + 1})

\* the digits among the characters
digitsOf(span, hex) == IF hex THEN SelectSeq(span, IsHexDigit) ELSE SelectSeq(span, IsDigit)

\* the number of zeros the digits start with
leadingZeros(ds) == Least({k \in DOMAIN ds : ds[k] # "0"} \cup {Len(ds) + 1}) - 1

\* the digits without their leading zeros, which the loop ignores
significant(ds) == SubSeq(ds, leadingZeros(ds) + 1, Len(ds))

\* the place of the point: the number of significant digits before it, or
\* minus the number of zeros between it and the first significant digit
pointPlace(before, after) ==
    IF significant(before) # << >> THEN Len(significant(before)) ELSE 0 - leadingZeros(after)

mantissaPoint(span, hex, dot) ==
    IF dot = {} THEN Len(significant(digitsOf(span, hex)))
    ELSE pointPlace(digitsOf(SubSeq(span, 1, Least(dot) - 1), hex),
                    digitsOf(SubSeq(span, Least(dot) + 1, Len(span)), hex))

\* The digits that are kept: 16 in base 16 (maxMantDigits), and in base 10
\* the 120 that decide the rounding, as no two neighbouring float32 have a
\* midpoint of more digits (decimal.set keeps 800).  From the digits after
\* them the value only takes whether one is not 0 (trunc).
maxMantDigits(hex) == IF hex THEN 16 ELSE 120

truncated(ds, max) ==
    IF Len(ds) <= max THEN ds
    ELSE IF \E k \in (max + 1)..Len(ds) : ds[k] # "0" THEN SubSeq(ds, 1, max) \o << "1" >>
    ELSE SubSeq(ds, 1, max)

mantissaDigits(ds) == [k \in DOMAIN ds |-> DigitValue(ds[k])]

mantissaOf(span, hex, end) ==
    [digits |-> mantissaDigits(truncated(significant(digitsOf(span, hex)),
                                         maxMantDigits(hex))),
     dp |-> mantissaPoint(span, hex, {k \in DOMAIN span : span[k] = "."}),
     sawdigits |-> digitsOf(span, hex) # << >>,
     underscores |-> \E k \in DOMAIN span : span[k] = "_",
     i |-> end]

\* readFloat's loop over the mantissa, from the character i on: the digits
\* after the leading zeros, the place of the point, and where the loop stops
readMantissa(s, hex, i) ==
    mantissaOf(SubSeq(s, i, mantissaEnd(s, i, hex) - 1), hex, mantissaEnd(s, i, hex))

\* where readFloat's loop over the digits of the exponent stops
exponentEnd(s, i) ==
    Least({j \in i..Len(s) : ~(IsDigit(s[j]) \/ s[j] = "_")} \cup {Len(s) + 1})

\* the exponent: a digit is taken in as long as e < 10000, which after the
\* leading zeros are the first five
exponentOf(ds) == DigitsValue(SubSeq(ds, 1, IF Len(ds) < 5 THEN Len(ds) ELSE 5), 10)

readExponent(s, i) ==
    [e |-> exponentOf(significant(SelectSeq(SubSeq(s, i, exponentEnd(s, i) - 1), IsDigit))),
     underscores |-> \E k \in i..(exponentEnd(s, i) - 1) : s[k] = "_",
     i |-> exponentEnd(s, i)]

IsUnderscoreDigit(c, hex) == IsDigit(c) \/ (hex /\ IsHexDigit(c))

\* underscoreOK after the sign and the base prefix: an underscore must
\* follow a digit (or the base prefix) and be followed by a digit
underscoreScan(s, hex, prefixed) ==
    \A j \in DOMAIN s :
       s[j] = "_" =>
          /\ IF j = 1 THEN prefixed ELSE IsUnderscoreDigit(s[j - 1], hex)
          /\ j < Len(s)
          /\ IsUnderscoreDigit(s[j + 1], hex)

underscoreUnsigned(s) ==
    IF Len(s) >= 2 /\ s[1] = "0" /\ s[2] \in {"b", "B", "o", "O", "x", "X"}
    THEN underscoreScan(SubSeq(s, 3, Len(s)), s[2] \in {"x", "X"}, TRUE)
    ELSE underscoreScan(s, FALSE, FALSE)

\* underscoreOK reports whether the underscores in s are allowed: only
\* between digits or between a base prefix and a digit
underscoreOK(s) ==
    IF s # << >> /\ s[1] \in {"-", "+"} THEN underscoreUnsigned(Tail(s))
    ELSE underscoreUnsigned(s)

FloatSyntaxError ==
    [ok |-> FALSE, neg |-> FALSE, hex |-> FALSE, digits |-> << >>, dp |-> 0, n |-> 0]

\* readFloat, from the place after the exponent character on
readExponentDigits(s, neg, hex, m, dp, esign, i) ==
    IF i > Len(s) \/ ~IsDigit(s[i]) THEN FloatSyntaxError
    ELSE [ok |-> ~(m.underscores \/ readExponent(s, i).underscores)
                 \/ underscoreOK(SubSeq(s, 1, readExponent(s, i).i - 1)),
          neg |-> neg, hex |-> hex, digits |-> m.digits,
          dp |-> dp + esign * readExponent(s, i).e,
          n |-> readExponent(s, i).i - 1]

readExponentSign(s, neg, hex, m, dp, i) ==
    IF i > Len(s) THEN FloatSyntaxError
    ELSE IF s[i] = "+" THEN readExponentDigits(s, neg, hex, m, dp, 1, i + 1)
    ELSE IF s[i] = "-" THEN readExponentDigits(s, neg, hex, m, dp, 0 - 1, i + 1)
    ELSE readExponentDigits(s, neg, hex, m, dp, 1, i)

\* readFloat, after the mantissa: the optional exponent moves the point;
\* a hexadecimal mantissa must have one
readAfterMantissa(s, neg, hex, m, dp) ==
    IF ~m.sawdigits THEN FloatSyntaxError
    ELSE IF m.i <= Len(s) /\ IsExpChar(s[m.i], hex)
    THEN readExponentSign(s, neg, hex, m, dp, m.i + 1)
    ELSE IF hex THEN FloatSyntaxError
    ELSE [ok |-> ~m.underscores \/ underscoreOK(SubSeq(s, 1, m.i - 1)),
          neg |-> neg, hex |-> hex, digits |-> m.digits, dp |-> dp, n |-> m.i - 1]

readMantissaFrom(s, neg, hex, m) ==
    readAfterMantissa(s, neg, hex, m, m.dp * (IF hex THEN 4 ELSE 1))

readUnsigned(s, neg, i, hex) ==
    readMantissaFrom(s, neg, hex, readMantissa(s, hex, IF hex THEN i + 2 ELSE i))

readSigned(s, neg, i) ==
    readUnsigned(s, neg, i, i + 2 <= Len(s) /\ s[i] = "0" /\ s[i + 1] \in {"x", "X"})

\* readFloat reads a decimal or hexadecimal mantissa and exponent from a
\* float string representation: the digits of the mantissa, dp with the
\* value 0.digits * 10^dp (0.digits * 2^dp when hex), and the number n of
\* characters read
readFloat(s) ==
    IF s = << >> THEN FloatSyntaxError
    ELSE IF s[1] = "+" THEN readSigned(s, FALSE, 2)
    ELSE IF s[1] = "-" THEN readSigned(s, TRUE, 2)
    ELSE readSigned(s, FALSE, 1)

\* commonPrefixLenIgnoreCase(s, prefix), prefix in lower case
RECURSIVE commonPrefixLenIgnoreCase(_, _)
commonPrefixLenIgnoreCase(s, prefix) ==
    IF s = << >> \/ prefix = << >> THEN 0
    ELSE IF s[1] = prefix[1] \/ (Ord(s[1]) \in 65..90 /\ Ord(s[1]) + 32 = Ord(prefix[1]))
    THEN 1 + commonPrefixLenIgnoreCase(Tail(s), Tail(prefix))
    ELSE 0

infinityPrefix(s) == commonPrefixLenIgnoreCase(s, << "i", "n", "f", "i", "n", "i", "t", "y" >>)

\* special returns the floating-point value for the special, possibly
\* signed floating-point representations inf, infinity, and NaN: the number
\* of characters of s they take, 0 when s starts with none
special(s) ==
    IF s = << >> THEN 0
    ELSE IF s[1] \in {"+", "-"}
    THEN IF infinityPrefix(Tail(s)) = 8 THEN 9
         ELSE IF infinityPrefix(Tail(s)) >= 3 THEN 4 ELSE 0
    ELSE IF s[1] \in {"i", "I"}
    THEN IF infinityPrefix(s) = 8 THEN 8 ELSE IF infinityPrefix(s) >= 3 THEN 3 ELSE 0
    ELSE IF s[1] \in {"n", "N"} /\ commonPrefixLenIgnoreCase(s, << "n", "a", "n" >>) = 3
    THEN 3
    ELSE 0

specialBits(s) ==
    IF s[1] \in {"n", "N"} THEN f32ModNaN ELSE f32WithSign(s[1] = "-", f32Inf)

atof32(s, f) ==
    IF ~f.ok \/ f.n # Len(s) THEN ParseError
    ELSE IF f.hex THEN f32OfHex(f.digits, f.dp, f.neg)
    ELSE f32OfDecimal(f.digits, f.dp, f.neg)

\* math.Float32bits(float32(arg)) for arg, err := strconv.ParseFloat(s, 32);
\* err when ParseFloat returns an error: bad syntax, or a value out of
\* range
ParseFloat(s) ==
    IF special(s) > 0
    THEN IF special(s) = Len(s) THEN [err |-> FALSE, val |-> specialBits(s)] ELSE ParseError
    ELSE atof32(s, readFloat(s))

\* Converts 1 piece of input into a uint32.  In the case of floats, it will
\* be the unsigned bit representation.
inputArgToUint32(strArg) ==
    IF strArg = << >> THEN ParseError
    ELSE IF HasPrefix(strArg, << "'" >>)
    THEN IF Len(strArg) # 3 THEN ParseError ELSE [err |-> FALSE, val |-> Ord(strArg[2])]
    ELSE IF \E i \in DOMAIN strArg : strArg[i] = "." THEN ParseFloat(strArg)
    ELSE IF HasPrefix(strArg, << "0", "x" >>)
    THEN parseNumber(SubSeq(strArg, 3, Len(strArg)), TRUE)
    ELSE parseNumber(strArg, FALSE)

NoInstruction == [err |-> TRUE, instr |-> NewInstruction(0, Nop, 0, 0)]

\* the instruction of a bytecode and its arguments, when their number makes
\* sense for the bytecode
buildInstruction(code, numArgs, arg0, arg1) ==
    IF numArgs < NumRequiredOpArgs(code) THEN NoInstruction
    ELSE IF numArgs > NumRequiredOpArgs(code) + NumOptionalOpArgs(code) THEN NoInstruction
    ELSE IF IsRegisterOp(code) \/ IsPrivilegedRegisterOp(code) \/ numArgs > 1
    THEN [err |-> FALSE, instr |-> NewInstruction(numArgs, code, arg0 % 65536, arg1)]
    ELSE [err |-> FALSE, instr |-> NewInstruction(numArgs, code, 0, arg0)]

\* Run through each argument and try to convert them to uint32
parseArgs(code, has0, has1, a0, a1) ==
    IF (has0 /\ a0.err) \/ (has1 /\ a1.err) THEN NoInstruction
    ELSE buildInstruction(code, (IF has0 THEN 1 ELSE 0) + (IF has1 THEN 1 ELSE 0),
                          IF has0 THEN a0.val ELSE 0, IF has1 THEN a1.val ELSE 0)

\* Converts an input line from list of strings to a VM instruction
parseInputLine(line) ==
    IF ~IsMnemonic(line[1]) THEN NoInstruction
    ELSE parseArgs(BytecodeOf(line[1]), line[2] # << >>, line[3] # << >>,
                   inputArgToUint32(line[2]), inputArgToUint32(line[3]))

\* a check that lets every register write through
registerWriteUnchecked(instr) ==
    IsRegisterOp(instr.code % 256) /\ instr.register >= numRegisters

\* Check for invalid register stores: the register is out of bounds, or a
\* write targets the program counter, the stack pointer or the frame pointer
registerCheckFails(instr) ==
    \/ IsRegisterOp(instr.code % 256) /\ instr.register >= numRegisters
    \/ IsRegisterWriteOp(instr.code % 256) /\ instr.register < 3

\* CompileSourceFromBuffer returned an error and no program
Rejected ==
    [err |-> TRUE, panic |-> FALSE, labels |-> << >>, lines |-> << >>,
     instructions |-> << >>]

\* CompileSourceFromBuffer did not return: preprocessLine panicked
CompilePanicked ==
    [err |-> TRUE, panic |-> TRUE, labels |-> << >>, lines |-> << >>,
     instructions |-> << >>]

\* the program, when no instruction fails the register check
checkedProgram(pre, instrs) ==
    IF \E i \in DOMAIN instrs : registerCheckFails(instrs[i]) THEN Rejected
    ELSE [err |-> FALSE, panic |-> FALSE, labels |-> pre.labels, lines |-> pre.lines,
          instructions |-> instrs]

parsedProgram(pre, parsed) ==
    IF \E i \in DOMAIN parsed : parsed[i].err THEN Rejected
    ELSE checkedProgram(pre, [i \in DOMAIN parsed |-> parsed[i].instr])

\* Parse each input line to generate a list of instructions; orders[i] is
\* the order in which the label map is walked for line i
parsePreprocessed(pre, orders) ==
    IF pre.panic THEN CompilePanicked
    ELSE IF pre.err THEN Rejected
    ELSE parsedProgram(pre,
            [i \in DOMAIN pre.lines |->
                parseInputLine(<< pre.lines[i][1],
                                  replaceLabels(pre.labels, orders[i], pre.lines[i][2]),
                                  replaceLabels(pre.labels, orders[i], pre.lines[i][3]) >>)])

\* Takes a buffer of lines and assembles them into a program represented by
\* a list of instructions.  The label map is walked once for every
\* preprocessed line, each time in an order of its own: orders holds one
\* order per line.
assemble(src, pre, orders) ==
    IF src = << >> THEN Rejected ELSE parsePreprocessed(pre, orders)

CompileSourceFromBuffer(debug, src, orders) ==
    assemble(src, preprocessAll(src, << >>, << >>, debug), orders)

\* the orders in which a map of n labels can be walked
RECURSIVE Orders(_)
Orders(S) ==
    IF S = {} THEN {<< >>}
    ELSE UNION {{<< x >> \o o : o \in Orders(S \ {x})} : x \in S}

\* some label's pattern matches an argument of line i as preprocessed
lineMatched(pre, i) ==
    \E l \in DOMAIN pre.labels, a \in {2, 3} :
       replaceLabel(pre.labels[l], pre.lines[i][a]) # pre.lines[i][a]

\* the orders of the walk for line i.  When no label's pattern matches an
\* argument of the line, every walk leaves the line as it is, and the order
\* of definition stands for all of them
ordersOfLine(pre, i) ==
    IF lineMatched(pre, i) THEN Orders(DOMAIN pre.labels)
    ELSE {[l \in DOMAIN pre.labels |-> l]}

RECURSIVE lineOrders(_, _)
lineOrders(pre, n) ==
    IF n = 0 THEN {<< >>}
    ELSE {Append(orders, o) : orders \in lineOrders(pre, n - 1), o \in ordersOfLine(pre, n)}

\* the orders the walks of the label map can take for a source: one order
\* of the labels for every preprocessed line
LabelOrders(pre) == lineOrders(pre, Len(pre.lines))

\* ------------------------------------------------------------------------
\* Sources handed to the assembler
\* ------------------------------------------------------------------------
\* the lines the label sources are made of:
\*   1: blank line
\*   2: comment only
\*   3: label a
\*   4: label b with a trailing comment
\*   5: reference to a
\*   6: indented reference to b with a trailing comment
\*   7: string literal of 2 bytes
\*   8: string literal of 2 bytes, one of them escaped
\*   9: label whose name is the decimal address 264
\*  10: reference to x
\*  11: label x
LinePool ==
    << << >>,
       << " ", " ", "/", "/", " ", "n", "o", "t", "e" >>,
       << "a", ":" >>,
       << "b", ":", " ", " ", "/", "/", " ", "s", "e", "c", "o", "n", "d" >>,
       << "c", "o", "n", "s", "t", " ", "a" >>,
       << "^I", "j", "m", "p", " ", "b", " ", "/", "/", " ", "g", "o" >>,
       << "c", "o", "n", "s", "t", " ", "\"", "h", "i", "\"" >>,
       << "c", "o", "n", "s", "t", " ", "\"", "a", "\\", "n", "\"" >>,
       << "2", "6", "4", ":" >>,
       << "j", "m", "p", " ", "x" >>,
       << "x", ":" >> >>

\* the lines of the sources in which a label is named by an address
AddressLines == {9, 10, 11}

\* sources of up to MaxLines lines, as sequences of pool indexes: of the
\* lines 1 to 8, or of the lines 9 to 11
MaxLines == 3
LabelPicks == UNION {[1..n -> DOMAIN LinePool \ AddressLines] : n \in 1..MaxLines}
AddressPicks == UNION {[1..n -> AddressLines] : n \in 1..MaxLines}

\* the lines the text sources are made of:
\*   1: `const` whose argument is one double quote after a tab
\*   2: label whose pattern has a dot
\*   3: reference that the pattern of line 2 matches
\*   4: label whose pattern does not compile
\*   5: floating-point literal
\*   6: label whose pattern has a repetition
\*   7: reference that the pattern of line 6 matches
TextPool ==
    << << "c", "o", "n", "s", "t", " ", "^I", "\"" >>,
       << "a", ".", "c", ":" >>,
       << "c", "o", "n", "s", "t", " ", "a", "b", "c" >>,
       << "a", "(", ":" >>,
       << "c", "o", "n", "s", "t", " ", "1", ".", "5" >>,
       << "a", "+", ":" >>,
       << "j", "m", "p", " ", "a", "a" >> >>
TextPicks == UNION {[1..n -> DOMAIN TextPool] : n \in 1..MaxLines}

\* the mnemonics and the register operands of the register sources; imm
\* gives register arithmetic its second argument, pos is the place of the
\* register line in a source padded with a `nop`
RegisterPickCodes == {Rload, Rstore, Rkstore, Raddi, Rsubi, Rdivi}
RegisterPickOperands ==
    {0, 1, 2, 3, numRegisters - 1, numRegisters, 65536, 65536 + 3, 65536 + numRegisters}
RegisterPicks ==
    {pick \in [code : RegisterPickCodes, reg : RegisterPickOperands, imm : BOOLEAN,
                pos : {0, 1, 2}] :
        pick.imm => pick.code \in RegisterArithmetic}

RegisterLine(pick) ==
    MnemonicOf(pick.code) \o << " " >> \o Sprintd(pick.reg)
    \o (IF pick.imm THEN << " ", "1" >> ELSE << >>)

\* the text of a source of the kind k
SourceText(k, pick) ==
    IF k = "regs"
    THEN CASE pick.pos = 0 -> << RegisterLine(pick) >>
           [] pick.pos = 1 -> << MnemonicOf(Nop), RegisterLine(pick) >>
           [] OTHER -> << RegisterLine(pick), MnemonicOf(Nop) >>
    ELSE IF k = "text" THEN [i \in DOMAIN pick |-> TextPool[pick[i]]]
    ELSE [i \in DOMAIN pick |-> LinePool[pick[i]]]

Prog(fam, k, n, h) == [fam |-> fam, k |-> k, n |-> n, h |-> h]

Programs ==
    {Prog("fault", k, 0, h) : k \in FaultKinds, h \in BOOLEAN}
    \cup {Prog("priv", k, n, h) : k \in PrivKinds, n \in {0, 1}, h \in BOOLEAN}
    \cup {Prog("pointer", k, n, h) : k \in PointerKinds, n \in DOMAIN AccessAddrs, h \in BOOLEAN}
    \cup {Prog("stack", k, n, h) : k \in StackKinds, n \in DOMAIN AccessAddrs, h \in BOOLEAN}
    \cup {Prog("ivt", k, n, FALSE) : k \in {"div0"}, n \in {0, 1}}
    \cup {Prog("leak", "return", 0, FALSE)}
    \cup {Prog("badwindow", "srstore", n, h) : n \in {0, 1}, h \in BOOLEAN}
    \cup {Prog("sysint", "public", n, FALSE) : n \in {0, 1}}
    \cup {Prog("sysint", "outside", 1, FALSE)}
    \cup {Prog("timer", k, 0, FALSE) : k \in {"poweroff", "nested", "rearm", "cancel", "unhandled"}}
    \cup {Prog("overflow", "readchar", 0, h) : h \in BOOLEAN}
    \cup {Prog("restart", "once", 0, h) : h \in BOOLEAN}
    \cup {Prog("restart", k, 0, FALSE) : k \in {"armed", "reads", "readafter"}}
    \cup {Prog("call", k, n, FALSE) : k \in {"imm", "stack"}, n \in {0, 1}}
    \cup {Prog("ret", k, n, FALSE) : k \in RetDepths, n \in RetWords}
    \cup {Prog("status", "query", n, FALSE) : n \in 0..(maxHWDevices - 1)}
    \cup {Prog("regs", k, n, FALSE) : k \in {"kstore", "store"}, n \in {0, 1}}
    \cup {Prog("cjump", k, n, h) : k \in CondKinds, n \in DOMAIN CondValues, h \in BOOLEAN}
    \cup {Prog("jump", "ivt", 0, FALSE)}
    \cup {Prog("window", "srstore", 0, FALSE)}
    \cup {Prog("asm", k, 0, FALSE) : k \in {"labels", "addresses", "regs", "text"}}

\* ------------------------------------------------------------------------
\* State
\* ------------------------------------------------------------------------
\* Bounds of the exploration
MaxRetries == 3
MaxDepth == 3

\* Runes the console's stdin may deliver
Runes == {65}

VARIABLES
    prog,      \* the program the machine was built with
    vm,        \* registers, memory, active segment, pending error, MMU window
    phase,     \* where the engine thread is inside execInstructions
    pending,   \* the device call, or the bus receive, the engine thread is in
               \* the middle of
    outcome,   \* "running", or the error code RunProgram ended with
    bus,       \* deviceResponseBus.responses (buffered channel)
    busCount,  \* deviceResponseBus.responseCount
    timer,     \* systemTimer and its goroutine
    console,   \* consoleIO and its goroutine
    last,      \* what the engine thread's latest step did
    frames,    \* register snapshots of the handler entries not yet resumed
               \* and of the calls not yet returned from
    retries,   \* consecutive re-entries of execInstructions after a panic
    call,      \* the current call of execInstructions: its singleStep argument,
               \* the instructions it has executed, whether it has returned true
    asm        \* the assembler's input and what CompileSourceFromBuffer returned

vars == << prog, vm, phase, pending, outcome, bus, busCount, timer, console, last,
           frames, retries, call, asm >>

\* a machine whose image was built in place has no source
NoSource ==
    [pick |-> << >>, debug |-> FALSE, status |-> "prebuilt", labels |-> << >>,
     lines |-> << >>, instructions |-> << >>]

\* the assembler's inputs: a source and whether debug symbols are requested
Sources(p) ==
    IF p.fam # "asm" THEN {NoSource}
    ELSE {[NoSource EXCEPT !.pick = pick, !.debug = debug, !.status = "source"] :
             pick \in (IF p.k = "labels" THEN LabelPicks
                       ELSE IF p.k = "addresses" THEN AddressPicks
                       ELSE IF p.k = "text" THEN TextPicks
                       ELSE RegisterPicks),
             debug \in BOOLEAN}

NoPending == [kind |-> "none", id |-> 0]

Snapshot(m) == [pc |-> Reg(m, PC), sp |-> Reg(m, SP), fp |-> Reg(m, FP), mode |-> Reg(m, MODE)]

Step(kind, code, opreg, oparg, at) ==
    [tick |-> 1 - last.tick, kind |-> kind, code |-> code, opreg |-> opreg,
     oparg |-> oparg, at |-> at, pre |-> Snapshot(vm), err |-> vm.errcode]

TopStep(kind) == Step(kind, 0, 0, 0, Reg(vm, PC))

InitMachine ==
    /\ prog \in Programs
    /\ asm \in Sources(prog)
    /\ vm = NewVirtualMachine(ProgramText(prog))
    /\ phase = IF prog.fam = "asm" THEN "source" ELSE "top"
    /\ pending = NoPending
    /\ outcome = "running"
    /\ bus = << >>
    /\ busCount = 0
    /\ timer = [chan |-> << >>, closed |-> FALSE, armed |-> FALSE, iid |-> 0,
                pc |-> IF prog.fam = "asm" THEN "unborn" ELSE "check"]
    /\ console = [queue |-> << >>, count |-> 0, chanClosed |-> FALSE, reset |-> FALSE,
                  closed |-> FALSE, lock |-> "free", iid |-> 0, rune |-> 0,
                  unread |-> FALSE, pc |-> IF prog.fam = "asm" THEN "unborn" ELSE "recv",
                  stale |-> {}]
    /\ last = [tick |-> 0, kind |-> "boot", code |-> 0, opreg |-> 0, oparg |-> 0,
               at |-> 0, pre |-> Snapshot(vm), err |-> errNil]
    /\ frames = << >>
    /\ retries = 0

\* execInstructions(singleStep): RunProgram passes false, RunProgramDebugMode
\* passes true
FirstCall(singleStep) == [single |-> singleStep, executed |-> 0, returned |-> FALSE]

\* RunProgram
Init == InitMachine /\ call = FirstCall(FALSE)

\* RunProgramDebugMode
DebugInit == InitMachine /\ call = FirstCall(TRUE)

\* the faults an instruction raises by `vm.errcode = ...; continue`
continueFaults == {errDivisionByZero, errIllegalInstruction, errUnknownInstruction}

\* the remainder instructions assign arithRemi's error to vm.errcode and go
\* on to the end of the loop body
remainderCodes == {remuNoArgs, remuOneArg, remsNoArgs, remsOneArg}

\* if singleStep { return true } at the end of the loop body: the
\* instruction has finished (ph = "top") without `continue`; a recovered
\* panic leaves errSegmentationFault, which no `continue` site raises
endsIteration(m, l, ph) ==
    /\ ph = "top"
    /\ l.kind = "exec"
    /\ (m.errcode \notin continueFaults \/ l.code \in remainderCodes)

\* the deferred recover(): retcode = true
recovered(l) == l.kind \in {"exc_retry", "dev_trap", "fetch_trap"}

\* The call of execInstructions after an engine step that leaves the
\* machine m, the step record l and the phase ph.  The step from "fetch" is
\* the call reaching decodeInstruction: the instruction at PC is executed,
\* which includes the fetch or the instruction faulting.  A step taken after the
\* call returned true is the first step of the caller's next call.  Calls of
\* execInstructions(false) return only through recover() or to end the run
\* and are not followed.
Called(m, l, ph) ==
    IF ~call.single THEN call
    ELSE LET executed0 == IF call.returned THEN 0 ELSE call.executed
         IN  [single   |-> TRUE,
              executed |-> IF phase = "fetch" THEN executed0 + 1 ELSE executed0,
              returned |-> (ph = "top" /\ recovered(l)) \/ endsIteration(m, l, ph)]

\* ------------------------------------------------------------------------
\* The engine thread: RunProgram calling execInstructions(false) until it
\* returns false.  One loop iteration is a "top" step (pending exception,
\* bus poll) followed by a "fetch" step (decode and dispatch); a device call
\* that waits on a channel or a lock continues in steps of its own.
\* ------------------------------------------------------------------------
Frame(kind, m, id) ==
    [kind |-> kind, pc |-> Reg(m, PC), sp |-> Reg(m, SP), fp |-> Reg(m, FP),
     mode |-> Reg(m, MODE), id |-> id]

\* the snapshot of a call: the registers after the fetch (pc is the return
\* address) and, as id, the address the call jumps to
CallFrame(m0, ins) ==
    Frame("call", m0,
          IF ins.code = callOneArg THEN ins.arg ELSE MemWord(m0.memory, Reg(m0, SP)))

WorkersUnchanged == UNCHANGED << timer, console >>

\* the exception entry that leaves the error flag set
exceptionEntryKeepsFault(m, handlerAddr) ==
    LET m1 == initForInterrupt(m)
    IN  IF m1.panicked THEN m1 ELSE SetReg(m1, PC, handlerAddr)

\* vm.initForInterrupt(); *pc = handlerAddr; vm.errcode = nil
exceptionEntry(m, handlerAddr) ==
    LET m1 == initForInterrupt(m)
    IN  IF m1.panicked THEN m1
        ELSE [SetReg(m1, PC, handlerAddr) EXCEPT !.errcode = errNil]

\* if vm.errcode != nil { ... }
EngineException ==
    /\ phase = "top"
    /\ vm.errcode # errNil
    /\ LET known == vm.errcode \in DOMAIN hardwareExceptionMap
           handlerAddr == IF known THEN MemWord(vm.memory, hardwareExceptionMap[vm.errcode]) ELSE 0
           m1 == exceptionEntry(vm, handlerAddr)
       IN  IF handlerAddr = 0
           THEN /\ phase' = "done"
                /\ outcome' = vm.errcode
                /\ last' = TopStep("exc_term")
                /\ UNCHANGED << vm, frames, retries >>
           ELSE IF m1.panicked
           THEN /\ retries < MaxRetries
                /\ vm' = Recover(m1)
                /\ retries' = retries + 1
                /\ last' = TopStep("exc_retry")
                /\ UNCHANGED << phase, outcome, frames >>
           ELSE /\ Len(frames) < MaxDepth
                /\ vm' = m1
                /\ phase' = "fetch"
                /\ frames' = Append(frames, Frame("exception", vm, 0))
                /\ retries' = 0
                /\ last' = TopStep("exc_entry")
                /\ UNCHANGED outcome
    /\ call' = Called(vm', last', phase')
    /\ UNCHANGED << prog, asm, pending, bus, busCount >>
    /\ WorkersUnchanged

\* a bus poll that takes every slot for a configured handler
handlerAlwaysConfigured(handlerAddr) == TRUE

\* if handlerAddr != 0 { ... }: the device's IVT slot holds a handler
handlerConfigured(handlerAddr) == handlerAddr # 0

\* a receive that forgets the response's error
receiveErrorDropped(m, resp) == m

\* if resp.deviceErr != nil { vm.errcode = resp.deviceErr; continue }
receiveError(m, resp) == Fault(m, resp.deviceErr)

\* else if vm.responseBus.Ready() { resp := vm.responseBus.Receive() ... }:
\* the poll finds the counter positive and Receive takes the response from
\* the channel (resp := <-bus.responses); the counter still counts it
EngineReceive ==
    /\ phase = "top"
    /\ vm.errcode = errNil
    /\ busCount > 0
    /\ bus # << >>
    /\ bus' = Tail(bus)
    /\ pending' = [kind |-> "response", id |-> Head(bus).id, resp |-> Head(bus)]
    /\ phase' = "busReceived"
    /\ last' = TopStep("receive")
    /\ call' = Called(vm', last', phase')
    /\ UNCHANGED << prog, asm, vm, outcome, busCount, frames, retries >>
    /\ WorkersUnchanged

\* bus.responseCount.Add(-1); return resp, and what execInstructions does
\* with the response it was handed
EngineReceiveCount ==
    /\ phase = "busReceived"
    /\ LET resp == pending.resp
           handlerAddr == MemWord(vm.memory, resp.interruptAddr)
           m3 == pushStackTwo(pushStackSegment(initForInterrupt(vm), OwnedBytes(resp.data)),
                              resp.id, Len(resp.data))
       IN  /\ busCount' = busCount - 1
           /\ IF resp.deviceErr # errNil
              THEN /\ vm' = receiveError(vm, resp)
                   /\ phase' = "top"
                   /\ last' = TopStep("dev_err")
                   /\ UNCHANGED frames
              ELSE IF ~handlerConfigured(handlerAddr)
              THEN /\ phase' = "fetch"
                   /\ last' = TopStep("dev_drop")
                   /\ UNCHANGED << vm, frames >>
              ELSE IF m3.panicked
              THEN /\ vm' = Recover(m3)
                   /\ phase' = "top"
                   /\ last' = TopStep("dev_trap")
                   /\ UNCHANGED frames
              ELSE /\ Len(frames) < MaxDepth
                   /\ vm' = SetReg(m3, PC, handlerAddr)
                   /\ phase' = "fetch"
                   /\ frames' = Append(frames, Frame("device", vm, resp.id))
                   /\ last' = TopStep("dev_entry")
    /\ pending' = NoPending
    /\ retries' = 0
    /\ call' = Called(vm', last', phase')
    /\ UNCHANGED << prog, asm, outcome, bus >>
    /\ WorkersUnchanged

\* neither a pending exception nor a ready response
EngineIdle ==
    /\ phase = "top"
    /\ vm.errcode = errNil
    /\ busCount = 0
    /\ phase' = "fetch"
    /\ last' = TopStep("idle")
    /\ retries' = 0
    /\ call' = Called(vm', last', phase')
    /\ UNCHANGED << prog, asm, vm, pending, outcome, bus, busCount, frames >>
    /\ WorkersUnchanged

FetchOk(m) == HasBytes(MemorySlice(Reg(m, PC), heapSizeBytes), instructionBytes)

\* a `write` that reaches a device's TrySend
IsDeviceCall(m, ins) == ins.code = writeTwoArgs /\ Reg(m, MODE) = 0 /\ ins.arg # 0

\* a device array whose every port answers ready
SyncStatusAllReady(port) == StatusDeviceReady

\* the device calls that return without waiting: the status TrySend returns
SyncStatus(port) == IF port >= 4 THEN StatusDeviceNotFound ELSE StatusDeviceReady

\* vm.pushStack(vm.devices[opreg].TrySend(interactionId, oparg, data))
WriteSync(pre, port, command) ==
    IF pre.m.panicked THEN pre.m
    ELSE WritePost(SyncTrySend(pre.m, port, command, pre.data), SyncStatus(port))

\* the switch on the decoded instruction; m0 has the PC advanced
Dispatch(m0, ins, privileged) ==
    IF ins.code = writeTwoArgs /\ privileged /\ ins.arg # 0
    THEN WriteSync(WritePre(m0, ins.register), ins.register, ins.arg)
    ELSE Exec(m0, ins.code, ins.register, ins.arg)

\* the end of the iteration: recover() of a panic, and the bookkeeping of
\* handler entries (sysint) and exits (resume), calls and returns
Retire(m1, m0, ins, at) ==
    LET entered  == ins.code = sysintOneArg /\ ~m1.panicked /\ m1.errcode = errNil
        resumed  == ins.code = resumeNoArgs /\ Reg(vm, MODE) = 0
        called   == ins.code \in {callNoArgs, callOneArg} /\ ~m1.panicked
        returned == /\ ins.code \in {returnNoArgs, returnOneArg}
                    /\ frames # << >>
                    /\ frames[Len(frames)].kind = "call"
    IN  /\ (entered \/ called) => Len(frames) < MaxDepth
        /\ vm' = Recover(m1)
        /\ last' = Step("exec", ins.code, ins.register, ins.arg, at)
        /\ frames' = IF entered THEN Append(frames, Frame("sysint", m0, 0))
                     ELSE IF called THEN Append(frames, CallFrame(m0, ins))
                     ELSE IF (resumed \/ returned) /\ frames # << >>
                     THEN SubSeq(frames, 1, Len(frames) - 1)
                     ELSE frames

Fetched(ins, at, m0) ==
    /\ (IsDeviceCall(vm, ins) /\ ~IsSyncDeviceCall(ins.register, ins.arg))
          => WritePre(m0, ins.register).m.panicked
    /\ Retire(Dispatch(m0, ins, Reg(vm, MODE) = 0), m0, ins, at)

\* code, opreg, oparg := decodeInstruction(vm.memory[*pc:]); *pc += 8; switch
EngineExec ==
    /\ phase = "fetch"
    /\ IF ~FetchOk(vm)
       THEN /\ vm' = Recover(Panicked(vm))
            /\ last' = Step("fetch_trap", 0, 0, 0, Reg(vm, PC))
            /\ UNCHANGED frames
       ELSE Fetched(decodeInstruction(vm.memory, Reg(vm, PC)), Reg(vm, PC),
                    SetReg(vm, PC, Add32(Reg(vm, PC), instructionBytes)))
    /\ phase' = "top"
    /\ retries' = 0
    /\ call' = Called(vm', last', phase')
    /\ UNCHANGED << prog, asm, pending, outcome, bus, busCount >>
    /\ WorkersUnchanged

\* `write` to the timer (arm), the power controller (restart, poweroff) or
\* the console (read request): the part of TrySend up to its first channel
\* operation
EngineWrite ==
    /\ phase = "fetch"
    /\ FetchOk(vm)
    /\ LET at   == Reg(vm, PC)
           ins  == decodeInstruction(vm.memory, at)
           pre  == WritePre(SetReg(vm, PC, Add32(at, instructionBytes)), ins.register)
           port == ins.register
           wait == Step("write_wait", ins.code, ins.register, ins.arg, at)
           done == Step("exec", ins.code, ins.register, ins.arg, at)
       IN  /\ IsDeviceCall(vm, ins)
           /\ ~pre.m.panicked
           /\ ~IsSyncDeviceCall(port, ins.arg)
           /\ IF port = 0
              THEN \* t.timerChan <- systemTimerData{uint32FromBytes(data), id}
                   IF HasBytes(pre.data, varchBytes)
                   THEN /\ vm' = pre.m
                        /\ phase' = "timerSend"
                        /\ pending' = [kind |-> "arm", id |-> pre.id]
                        /\ last' = wait
                        /\ UNCHANGED << timer, console, frames >>
                   ELSE /\ vm' = Recover(Panicked(pre.m))
                        /\ phase' = "top"
                        /\ last' = done
                        /\ UNCHANGED << pending, timer, console, frames >>
              ELSE IF port = 1 /\ ins.arg = 2
              THEN \* p.vm.setInitialVMState(); devices[0].Reset() ...
                   /\ vm' = setInitialVMState(pre.m)
                   /\ phase' = "timerSend"
                   /\ pending' = [kind |-> "restart", id |-> 0]
                   /\ frames' = << >>
                   /\ last' = wait
                   /\ UNCHANGED << timer, console >>
              ELSE IF port = 1
              THEN \* devices[0].Close(): t.closed.Store(true); t.Reset() ...
                   /\ vm' = pre.m
                   /\ timer' = [timer EXCEPT !.closed = TRUE]
                   /\ phase' = "timerSend"
                   /\ pending' = [kind |-> "poweroff", id |-> 0]
                   /\ last' = wait
                   /\ UNCHANGED << console, frames >>
              ELSE \* c.charRequests.send(id)
                   IF sendRefused(console.count)
                   THEN /\ vm' = pre.m
                        /\ phase' = "busSend"
                        /\ pending' = [kind |-> "overflow", id |-> pre.id]
                        /\ last' = wait
                        /\ UNCHANGED << timer, console, frames >>
                   ELSE /\ vm' = IF console.chanClosed THEN Recover(Panicked(pre.m))
                                 ELSE Recover(WritePost(pre.m, StatusDeviceReady))
                        /\ console' = IF console.chanClosed
                                      THEN [console EXCEPT !.count = @ + 1]
                                      ELSE [console EXCEPT !.count = @ + 1,
                                                           !.queue = Append(@, pre.id)]
                        /\ phase' = "top"
                        /\ last' = done
                        /\ UNCHANGED << pending, timer, frames >>
    /\ retries' = 0
    /\ call' = Called(vm', last', phase')
    /\ UNCHANGED << prog, asm, outcome, bus, busCount >>

Continue(kind) == [last EXCEPT !.tick = 1 - @, !.kind = kind]

\* the blocking send on timerChan of TrySend / Reset, and what follows it
\* up to the console's lock
EngineTimerSend ==
    /\ phase = "timerSend"
    /\ Len(timer.chan) < timerChanCapacity
    /\ timer' = [timer EXCEPT !.chan = Append(@,
                    [finite |-> pending.kind = "arm", iid |-> pending.id])]
    /\ IF pending.kind = "arm"
       THEN /\ vm' = Recover(WritePost(vm, StatusDeviceReady))
            /\ phase' = "top"
            /\ pending' = NoPending
            /\ last' = Continue("exec")
            /\ UNCHANGED console
       ELSE IF pending.kind = "restart"
       THEN \* devices[2].Reset(), then devices[3].Reset() waits for the lock
            /\ vm' = mmuReset(vm)
            /\ phase' = "ioLock"
            /\ last' = Continue("write_wait")
            /\ UNCHANGED << pending, console >>
       ELSE \* devices[3].Close(): c.charRequests.close(), then c.Lock()
            /\ console' = [console EXCEPT !.chanClosed = TRUE,
                                          !.count = charRequestsCapacity + 1]
            /\ phase' = "ioLock"
            /\ last' = Continue("write_wait")
            /\ UNCHANGED << vm, pending >>
    /\ call' = Called(vm', last', phase')
    /\ UNCHANGED << prog, asm, outcome, bus, busCount, frames, retries >>

\* the read requests the console has accepted and not yet answered or dropped
\* (console.stale remembers them as of the latest Reset)
PendingRequests ==
    {console.queue[i] : i \in DOMAIN console.queue}
    \cup (IF console.pc \in {"received", "check", "read", "lock"}
          THEN {console.iid} ELSE {})

\* consoleIO.Reset / consoleIO.Close under the console's mutex, and the rest
\* of powerController.TrySend
EngineIoLock ==
    /\ phase = "ioLock"
    /\ console.lock = "free"
    /\ IF pending.kind = "restart"
       THEN /\ console' = [console EXCEPT !.reset = TRUE, !.stale = PendingRequests]
            /\ vm' = Recover(WritePost(vm, StatusDeviceReady))
       ELSE /\ console' = [console EXCEPT !.closed = TRUE]
            /\ vm' = Recover(WritePost(Fault(vm, errSystemShutdown), StatusDeviceReady))
    /\ phase' = "top"
    /\ pending' = NoPending
    /\ last' = Continue("exec")
    /\ call' = Called(vm', last', phase')
    /\ UNCHANGED << prog, asm, outcome, bus, busCount, timer, frames, retries >>

\* c.ResponseBus.Send(NewResponse(c.InterruptAddr, id, nil, errIO)) on the
\* engine thread: bus.responses <- resp
EngineBusSend ==
    /\ phase = "busSend"
    /\ Len(bus) < busCapacity
    /\ bus' = Append(bus, NewResponse(consoleSlot, pending.id, << >>, errIO))
    /\ phase' = "busCount"
    /\ last' = Continue("write_wait")
    /\ call' = Called(vm', last', phase')
    /\ UNCHANGED << prog, asm, vm, pending, outcome, busCount, timer, console, frames, retries >>

\* bus.responseCount.Add(1); return StatusDeviceBusy
EngineBusCount ==
    /\ phase = "busCount"
    /\ busCount' = busCount + 1
    /\ vm' = Recover(WritePost(vm, StatusDeviceBusy))
    /\ phase' = "top"
    /\ pending' = NoPending
    /\ last' = Continue("exec")
    /\ call' = Called(vm', last', phase')
    /\ UNCHANGED << prog, asm, outcome, bus, timer, console, frames, retries >>

EngineUnchanged ==
    UNCHANGED << prog, asm, vm, phase, pending, outcome, last, frames, retries, call >>

\* ------------------------------------------------------------------------
\* The system timer goroutine
\* ------------------------------------------------------------------------
\* if st.closed.Load() { return }
TimerCheck ==
    /\ timer.pc = "check"
    /\ timer' = [timer EXCEPT !.pc = IF timer.closed THEN "exited" ELSE "select"]
    /\ UNCHANGED << bus, busCount, console >>
    /\ EngineUnchanged

\* case <-t.C: the timer expired
TimerFire ==
    /\ timer.pc = "select"
    /\ timer.armed
    /\ timer' = [timer EXCEPT !.armed = FALSE, !.pc = "send"]
    /\ UNCHANGED << bus, busCount, console >>
    /\ EngineUnchanged

\* case newTimer := <-st.timerChan: overwrite the existing timer
TimerReceive ==
    /\ timer.pc = "select"
    /\ timer.chan # << >>
    /\ timer' = [timer EXCEPT !.chan = Tail(@), !.armed = Head(timer.chan).finite,
                              !.iid = Head(timer.chan).iid, !.pc = "check"]
    /\ UNCHANGED << bus, busCount, console >>
    /\ EngineUnchanged

\* a Send that adds to the counter without the channel send before it
TimerSendCountsOnly ==
    /\ timer.pc = "send"
    /\ timer' = [timer EXCEPT !.pc = "count"]
    /\ UNCHANGED << bus, busCount, console >>
    /\ EngineUnchanged

\* st.ResponseBus.Send(...): bus.responses <- resp
TimerSend ==
    /\ timer.pc = "send"
    /\ Len(bus) < busCapacity
    /\ bus' = Append(bus, NewResponse(timerSlot, timer.iid, << >>, errNil))
    /\ timer' = [timer EXCEPT !.pc = "count"]
    /\ UNCHANGED << busCount, console >>
    /\ EngineUnchanged

\* bus.responseCount.Add(1)
TimerCount ==
    /\ timer.pc = "count"
    /\ busCount' = busCount + 1
    /\ timer' = [timer EXCEPT !.pc = "check"]
    /\ UNCHANGED << bus, console >>
    /\ EngineUnchanged

\* ------------------------------------------------------------------------
\* The console reader goroutine
\* ------------------------------------------------------------------------
ConsoleUnchanged == UNCHANGED << bus, busCount, timer >>

\* iid, ok := io.charRequests.receive(): v, ok := <-nc.channel takes a
\* request; the counter still counts it
ConsoleReceive ==
    /\ console.pc = "recv"
    /\ console.queue # << >>
    /\ console' = [console EXCEPT !.queue = Tail(@), !.iid = Head(console.queue),
                                  !.pc = "received"]
    /\ ConsoleUnchanged
    /\ EngineUnchanged

\* if ok { nc.count.Add(-1) }; return v, ok
ConsoleReceiveCount ==
    /\ console.pc = "received"
    /\ console' = [console EXCEPT !.count = @ - 1, !.pc = "check"]
    /\ ConsoleUnchanged
    /\ EngineUnchanged

\* receive from the closed, drained channel: the goroutine returns
ConsoleExit ==
    /\ console.pc = "recv"
    /\ console.queue = << >>
    /\ console.chanClosed
    /\ console' = [console EXCEPT !.pc = "exited"]
    /\ ConsoleUnchanged
    /\ EngineUnchanged

\* if isResetOrClosed(true) { return }
ConsoleCheck ==
    /\ console.pc = "check"
    /\ console.lock = "free"
    /\ console' = [console EXCEPT !.reset = FALSE,
                                  !.pc = IF console.reset \/ console.closed
                                         THEN "recv" ELSE "read"]
    /\ ConsoleUnchanged
    /\ EngineUnchanged

\* r, _, _ := io.stdin.ReadRune()
ConsoleRead ==
    /\ console.pc = "read"
    /\ \E r \in Runes :
          console' = [console EXCEPT !.rune = IF console.unread THEN @ ELSE r,
                                     !.unread = FALSE, !.pc = "lock"]
    /\ ConsoleUnchanged
    /\ EngineUnchanged

\* io.Lock(); if isResetOrClosed(false) { io.stdin.UnreadRune(); return }
ConsoleLock ==
    /\ console.pc = "lock"
    /\ console.lock = "free"
    /\ console' = IF console.reset \/ console.closed
                  THEN [console EXCEPT !.reset = FALSE, !.unread = TRUE, !.pc = "recv"]
                  ELSE [console EXCEPT !.lock = "reader", !.pc = "send"]
    /\ ConsoleUnchanged
    /\ EngineUnchanged

\* io.ResponseBus.Send(...): bus.responses <- resp, with the mutex held
ConsoleSend ==
    /\ console.pc = "send"
    /\ Len(bus) < busCapacity
    /\ bus' = Append(bus, NewResponse(consoleSlot, console.iid,
                                      uint32ToBytes(console.rune), errNil))
    /\ console' = [console EXCEPT !.pc = "count"]
    /\ UNCHANGED << busCount, timer >>
    /\ EngineUnchanged

\* bus.responseCount.Add(1); deferred io.Unlock()
ConsoleCount ==
    /\ console.pc = "count"
    /\ busCount' = busCount + 1
    /\ console' = [console EXCEPT !.lock = "free", !.pc = "recv"]
    /\ UNCHANGED << bus, timer >>
    /\ EngineUnchanged

\* ------------------------------------------------------------------------
\* Specification
\* ------------------------------------------------------------------------
\* ------------------------------------------------------------------------
\* Assembling a source and building the machine from the program
\* ------------------------------------------------------------------------
\* how CompileSourceFromBuffer ended: it panicked, or it returned an error
\* and no program, or it returned the program
AsmOutcome(r) == IF r.panic THEN "panicked" ELSE IF r.err THEN "rejected" ELSE "image"

AsmReturns(r) ==
    /\ asm' = [asm EXCEPT !.status = AsmOutcome(r),
                          !.labels = [i \in DOMAIN r.labels |->
                                         [name |-> r.labels[i].name,
                                          addr |-> r.labels[i].addr]],
                          !.lines = r.lines,
                          !.instructions = r.instructions]
    /\ phase' = IF r.panic THEN "panicked" ELSE IF r.err THEN "rejected" ELSE "compiled"

\* CompileSourceFromBuffer(debug, lines), with the label map walked in some
\* order for each line
AsmCompileFrom(src, pre) ==
    \E orders \in LabelOrders(pre) : AsmReturns(assemble(src, pre, orders))

AsmCompile ==
    /\ phase = "source"
    /\ AsmCompileFrom(SourceText(prog.k, asm.pick),
                      preprocessAll(SourceText(prog.k, asm.pick), << >>, << >>, asm.debug))
    /\ UNCHANGED << prog, vm, pending, outcome, bus, busCount, timer, console, last,
                    frames, retries, call >>

\* NewVirtualMachine(program): the image is placed in memory and the
\* devices' workers are started
VmCreate ==
    /\ phase = "compiled"
    /\ vm' = NewVirtualMachine(asm.instructions)
    /\ phase' = "loaded"
    /\ timer' = [timer EXCEPT !.pc = "check"]
    /\ console' = [console EXCEPT !.pc = "recv"]
    /\ UNCHANGED << prog, asm, pending, outcome, bus, busCount, last, frames, retries, call >>

Next ==
    \/ AsmCompile
    \/ VmCreate
    \/ EngineException
    \/ EngineReceive
    \/ EngineReceiveCount
    \/ EngineIdle
    \/ EngineExec
    \/ EngineWrite
    \/ EngineTimerSend
    \/ EngineIoLock
    \/ EngineBusSend
    \/ EngineBusCount
    \/ TimerCheck
    \/ TimerFire
    \/ TimerReceive
    \/ TimerSend
    \/ TimerCount
    \/ ConsoleReceive
    \/ ConsoleReceiveCount
    \/ ConsoleExit
    \/ ConsoleCheck
    \/ ConsoleRead
    \/ ConsoleLock
    \/ ConsoleSend
    \/ ConsoleCount

Spec == Init /\ [][Next]_vars

\* the run under the debugger
DebugSpec == DebugInit /\ [][Next]_vars

TypeOK ==
    /\ phase \in {"top", "fetch", "busReceived", "timerSend", "ioLock", "busSend",
                 "busCount", "done", "source", "rejected", "panicked", "compiled",
                 "loaded"}
    /\ busCount \in 0..(busCapacity + 1)
    /\ Len(bus) <= busCapacity
    /\ ~vm.panicked

\* the image of the program passes the register check of
\* CompileSourceFromBuffer: no instruction writes PC, SP or FP
ImageAssembles ==
    prog.fam # "asm" =>
        \A i \in DOMAIN ProgramText(prog) : ~registerCheckFails(ProgramText(prog)[i])

\* ------------------------------------------------------------------------
\* Properties
\* ------------------------------------------------------------------------
\* the engine thread takes the step (the worker goroutines leave `last` alone)
EngineStep == last'.tick # last.tick

\* the value of the IVT slot the pending fault maps to; 0 when the fault has
\* no slot
PendingSlot ==
    IF vm.errcode \in DOMAIN hardwareExceptionMap
    THEN MemWord(vm.memory, hardwareExceptionMap[vm.errcode])
    ELSE 0

\* the run ends with the pending fault as its outcome
FaultTerminates ==
    /\ last'.kind = "exc_term"
    /\ phase' = "done"
    /\ outcome' = vm.errcode
    /\ vm' = vm

\* the handler of the pending fault is entered through the interrupt entry
FaultEntersHandler ==
    /\ last'.kind = "exc_entry"
    /\ phase' = "fetch"
    /\ Reg(vm', PC) = PendingSlot
    /\ Reg(vm', FP) = Sub32(Reg(vm, SP), varchBytesx4)
    /\ Reg(vm', SP) = Reg(vm', FP)
    /\ Reg(vm', MODE) = 0
    /\ vm'.errcode = errNil

\* the interrupt entry itself trapped: no handler is entered, a fault stays
\* pending and the engine is back at the top of the loop
FaultEntryTraps ==
    /\ last'.kind = "exc_retry"
    /\ phase' = "top"
    /\ vm'.errcode # errNil
    /\ Reg(vm', PC) = Reg(vm, PC)
    /\ Reg(vm', MODE) = Reg(vm, MODE)

\* C1 (as the code behaves): while a fault is pending the next step of the
\* engine is the resolution of that fault at the top of the loop and never the
\* dispatch of an instruction; the run terminates with the fault as its outcome
\* when the fault's IVT slot holds 0 (or the fault has no slot); otherwise the
\* handler is entered through the interrupt entry with PC = the slot's value
\* and the pending fault cleared, unless the entry's push of the frame traps,
\* in which case no handler is entered and a fault stays pending.
C1_FaultResolution ==
    [][(vm.errcode # errNil /\ EngineStep) =>
          /\ phase = "top"
          /\ IF PendingSlot = 0 THEN FaultTerminates
             ELSE FaultEntersHandler \/ FaultEntryTraps]_vars

\* C1 as stated: a pending fault whose slot is not 0 is always resolved by
\* entering the handler
C1_Original ==
    [][(vm.errcode # errNil /\ EngineStep) =>
          /\ phase = "top"
          /\ IF PendingSlot = 0 THEN FaultTerminates ELSE FaultEntersHandler]_vars

\* a division by zero has been resolved by entering its handler
C1_Witness ==
    /\ last.kind = "exc_entry"
    /\ last.err = errDivisionByZero
    /\ Reg(vm, PC) = MemWord(vm.memory, hardwareExceptionMap[errDivisionByZero])
    /\ vm.errcode = errNil

\* the saved frame of the latest handler entry, taken with PC = p
SavedFrame(p) ==
    LET s == last.pre.sp
    IN  /\ MemWord(vm.memory, Sub32(s, 4 * varchBytes)) = p
        /\ MemWord(vm.memory, Sub32(s, 3 * varchBytes)) = s
        /\ MemWord(vm.memory, Sub32(s, 2 * varchBytes)) = last.pre.fp
        /\ MemWord(vm.memory, Sub32(s, 1 * varchBytes)) = last.pre.mode
        /\ Reg(vm, FP) = Sub32(s, 4 * varchBytes)
        /\ Reg(vm, MODE) = 0
        /\ vm.activeSegment = WholeMemory
        /\ vm.stackOffsetBytes = 0

\* the latest engine step entered the handler of a `sysint`
SysintEntered ==
    last.kind = "exec" /\ last.code = sysintOneArg /\ vm.errcode = errNil

\* C2: after every handler entry (exception, device response, sysint) taken
\* with PC = p, SP = s, FP = f, mode = m, the words at s-16, s-12, s-8, s-4 are
\* p, s, f, m, FP is s-16, mode is 0 and the active segment is the whole
\* memory with stack offset 0.  For sysint p is the PC the entry saves, i.e.
\* the address of the instruction after the sysint.
C2_EntryFrame ==
    /\ last.kind \in {"exc_entry", "dev_entry"} => SavedFrame(last.pre.pc)
    /\ SysintEntered => SavedFrame(Add32(last.at, instructionBytes))

\* a handler has been entered from unprivileged mode inside the window
C2_Witness ==
    /\ last.kind = "exc_entry"
    /\ last.pre.mode # 0
    /\ vm.mmu.minHeapAddr = winMin
    /\ Reg(vm, FP) = Sub32(last.pre.sp, varchBytesx4)

\* the instruction the engine is about to fetch
NextInstruction == decodeInstruction(vm.memory, Reg(vm, PC))

\* the engine is about to fetch and dispatch an instruction
AtFetch == phase = "fetch" /\ FetchOk(vm)

\* the active segment of machine m is the one its mode register asks for
SegmentAgreesIn(m) ==
    IF Reg(m, MODE) = 0
    THEN m.activeSegment = WholeMemory /\ m.stackOffsetBytes = 0
    ELSE /\ m.activeSegment.ok
         /\ m.activeSegment.base = m.mmu.minHeapAddr
         /\ m.activeSegment.len = m.mmu.maxHeapAddr - m.mmu.minHeapAddr
         /\ m.stackOffsetBytes = m.mmu.minHeapAddr

SegmentAgrees == SegmentAgreesIn(vm)

\* the handler entry recorded in frame fr has its saved words and FP intact
FrameUntouched(fr) ==
    /\ Reg(vm, FP) = Sub32(fr.sp, varchBytesx4)
    /\ MemWord(vm.memory, Reg(vm, FP)) = fr.pc
    /\ MemWord(vm.memory, Reg(vm, FP) + 1 * varchBytes) = fr.sp
    /\ MemWord(vm.memory, Reg(vm, FP) + 2 * varchBytes) = fr.fp
    /\ MemWord(vm.memory, Reg(vm, FP) + 3 * varchBytes) = fr.mode

\* the registers of machine m are those recorded in frame fr
Restored(m, fr) ==
    /\ Reg(m, PC) = fr.pc
    /\ Reg(m, SP) = fr.sp
    /\ Reg(m, FP) = fr.fp
    /\ Reg(m, MODE) = fr.mode
    /\ SegmentAgreesIn(m)

\* the engine is about to execute `resume` in the handler entered last, which
\* has left FP and the saved words alone
ResumeOfUntouchedFrame ==
    /\ AtFetch
    /\ NextInstruction.code = resumeNoArgs
    /\ Reg(vm, MODE) = 0
    /\ frames # << >>
    /\ FrameUntouched(frames[Len(frames)])

\* C3 as stated: a `resume` executed in a handler that left FP and the four
\* saved words untouched restores PC, SP, FP and mode to the values the entry
\* saved, and the active segment matches the restored mode.
C3_Original ==
    [][(ResumeOfUntouchedFrame /\ EngineStep) => Restored(vm', frames[Len(frames)])]_vars

\* the instructions that are legal in privileged mode only
PrivilegedOnly(ins) ==
    \/ ins.code \in {srLoadOneArg, srStoreOneArg, resumeNoArgs, haltNoArgs, writeTwoArgs}
    \/ ins.code = sysintOneArg /\ ins.arg >= 0 /\ ins.arg < restrictedInterruptsAddrRange

\* C4: in a state with mode # 0, executing srload, srstore, resume, halt,
\* write, or sysint a with a < 0xA0 sets the pending exception to
\* illegal-instruction and changes nothing else: apart from the PC having
\* moved past the instruction, registers (special ones and the mode
\* included), memory, active segment, bus and devices are as before.
C4_PrivilegedRefused ==
    [][(AtFetch /\ Reg(vm, MODE) # 0 /\ PrivilegedOnly(NextInstruction) /\ EngineStep) =>
          /\ vm' = [vm EXCEPT !.errcode = errIllegalInstruction,
                              !.registers[PC] = Add32(@, instructionBytes)]
          /\ phase' = "top"
          /\ UNCHANGED << pending, bus, busCount, timer, console, frames >>]_vars

\* an unprivileged `write` has been refused
C4_Witness ==
    /\ last.kind = "exec"
    /\ last.code = writeTwoArgs
    /\ last.pre.mode # 0
    /\ vm.errcode = errIllegalInstruction

\* address a lies in the stored MMU window
InWindow(a) == a >= vm.mmu.minHeapAddr /\ a < vm.mmu.maxHeapAddr

\* the bytes [lo, lo + n) a memory access of the next instruction touches
\* (n = 0: the instruction is none of the accesses considered): pointer loads
\* and stores at the address on top of the stack, and the stack bytes read or
\* written by const, byte, addi k and return n
AccessedBytes ==
    LET ins == NextInstruction
        sp  == Reg(vm, SP)
        top == MemWord(vm.memory, sp)
    IN  CASE ins.code \in {loadp8NoArgs, storep8NoArgs} -> [lo |-> top, n |-> 1]
          [] ins.code \in {loadp16NoArgs, storep16NoArgs} -> [lo |-> top, n |-> 2]
          [] ins.code \in {loadp32NoArgs, storep32NoArgs} -> [lo |-> top, n |-> 4]
          [] ins.code = constOneArg -> [lo |-> Sub32(sp, varchBytes), n |-> varchBytes]
          [] ins.code = byteOneArg -> [lo |-> Sub32(sp, 1), n |-> 1]
          [] ins.code = addiOneArg -> [lo |-> sp, n |-> varchBytes]
          [] ins.code = returnOneArg -> [lo |-> sp, n |-> ins.arg]
          [] OTHER -> [lo |-> 0, n |-> 0]

\* the operands a pointer access takes from the stack are inside the window
OperandsInWindow ==
    LET ins == NextInstruction
        sp  == Reg(vm, SP)
    IN  IF ins.code \in {loadp8NoArgs, loadp16NoArgs, loadp32NoArgs}
        THEN InWindow(sp) /\ InWindow(sp + varchBytes - 1)
        ELSE IF ins.code \in {storep8NoArgs, storep16NoArgs, storep32NoArgs}
        THEN InWindow(sp) /\ InWindow(sp + varchBytesx2 - 1)
        ELSE TRUE

\* every byte outside the window is as before the step
OutsideWindowUnchanged ==
    \A x \in (DOMAIN vm.memory) \cup (DOMAIN vm'.memory) :
        ~InWindow(x) => MemRead(vm'.memory, x) = MemRead(vm.memory, x)

\* C5 as stated: in unprivileged mode a pointer load/store or stack access
\* succeeds iff the bytes it touches lie in [mmu_min, mmu_max); an access
\* outside the window raises segmentation fault and leaves the memory outside
\* the window unchanged.
C5_Original ==
    [][(/\ AtFetch
        /\ Reg(vm, MODE) # 0
        /\ SegmentAgrees
        /\ AccessedBytes.n > 0
        /\ OperandsInWindow
        /\ EngineStep) =>
          LET inside == InWindow(AccessedBytes.lo)
                        /\ InWindow(AccessedBytes.lo + AccessedBytes.n - 1)
          IN  /\ inside <=> vm'.errcode = errNil
              /\ ~inside => vm'.errcode = errSegmentationFault
              /\ OutsideWindowUnchanged]_vars

\* C6 as stated: no instruction executed while mode # 0 changes a byte of the
\* interrupt vector table [0, 256).
C6_Original ==
    [][(AtFetch /\ Reg(vm, MODE) # 0 /\ EngineStep) =>
          \A x \in 0..(interruptsAddrRange - 1) :
              MemRead(vm'.memory, x) = MemRead(vm.memory, x)]_vars

\* C7: the device call of a privileged `write 1 3` ends with system-shutdown
\* pending at the iteration boundary, and the engine's next step from there
\* terminates the run with outcome system-shutdown, without dispatching an
\* instruction or entering a handler.
C7_PoweroffTerminates ==
    [][EngineStep =>
          /\ (phase = "ioLock" /\ pending.kind = "poweroff") =>
                (phase' = "top" /\ vm'.errcode = errSystemShutdown)
          /\ vm.errcode = errSystemShutdown =>
                /\ phase = "top"
                /\ last'.kind = "exc_term"
                /\ phase' = "done"
                /\ outcome' = errSystemShutdown
                /\ UNCHANGED << vm, frames >>]_vars

\* the run has ended by poweroff
C7_Witness ==
    /\ phase = "done"
    /\ outcome = errSystemShutdown
    /\ last.kind = "exc_term"
    /\ timer.closed
    /\ console.closed

\* C8 as stated: the engine thread never waits on the response bus inside a
\* device's TrySend; at capacity the sender returns instead of waiting.
C8_Original == ~(phase = "busSend" /\ Len(bus) >= busCapacity)

\* C9 as stated: the engine receives no response from the bus while a device
\* handler it has entered has not yet executed its `resume`.
C9_Original ==
    [][(Len(bus') < Len(bus)) =>
          \A i \in DOMAIN frames : frames[i].kind # "device"]_vars

\* C10: at every instruction fetch the active segment agrees with the mode
\* register: mode = 0 gives the whole memory with stack offset 0, mode # 0
\* gives exactly the stored window [min_addr, max_addr) with stack offset
\* min_addr.
C10_SegmentAtFetch == phase = "fetch" => SegmentAgrees

\* the engine fetches unprivileged code inside the window after the handler
\* of an illegal instruction has resumed it
C10_Witness ==
    /\ phase = "fetch"
    /\ prog.fam = "priv"
    /\ prog.h
    /\ frames = << >>
    /\ NextInstruction.code = sysintOneArg
    /\ NextInstruction.arg = exitSlot
    /\ Reg(vm, MODE) # 0
    /\ vm.activeSegment.base = winMin
    /\ vm.activeSegment.len = winMax - winMin

\* SP of machine m addresses the active segment: a byte of it, or the
\* position one past its end (the empty stack)
SPInSegment(m) ==
    LET rel == computeRelativeStackPointer(m, Reg(m, SP))
    IN  m.activeSegment.ok /\ rel >= 0 /\ rel <= m.activeSegment.len

\* C11 as stated: at every iteration boundary SP lies within the active
\* segment, and an instruction that has moved SP outside it has raised
\* segmentation fault.
C11_Original ==
    [][(EngineStep /\ phase' = "top") =>
          (SPInSegment(vm') \/ vm'.errcode = errSegmentationFault)]_vars

\* `const 1; srstore 32` has switched program window/srstore to the window
\* [winMin, winMax) with SP where the boot words left it, above the window,
\* and no fault is pending
C11_Witness ==
    /\ prog.fam = "window"
    /\ last.kind = "exec"
    /\ last.code = srStoreOneArg
    /\ phase = "top"
    /\ vm.errcode = errNil
    /\ Reg(vm, MODE) # 0
    /\ vm.activeSegment.base = winMin
    /\ vm.activeSegment.len = winMax - winMin
    /\ Reg(vm, SP) = heapSizeBytes - varchBytesx2
    /\ ~SPInSegment(vm)

\* C12 as stated: every address the engine fetches an instruction from is a
\* multiple of 8 and at least reserved_bytes.
C12_Original ==
    AtFetch => (Reg(vm, PC) % instructionBytes = 0 /\ Reg(vm, PC) >= reservedBytes)

\* the innermost call or handler entry that has not been left yet
TopFrame == frames[Len(frames)]

\* the engine is about to execute the `return` that is the first instruction
\* of the target of the innermost call
ReturnAtCallTarget ==
    /\ AtFetch
    /\ NextInstruction.code = returnNoArgs
    /\ frames # << >>
    /\ TopFrame.kind = "call"
    /\ Reg(vm, PC) = TopFrame.id

\* the innermost call is the stack-address form
StackFormCall ==
    decodeInstruction(vm.memory, Sub32(TopFrame.pc, instructionBytes)).code = callNoArgs

\* C13: a `call` (immediate or stack-address form) whose target starts with
\* `return`: after the return PC is the address of the instruction following
\* the call, FP is its value before the call, and SP is its value before the
\* call (stack-address form: before the target address was pushed, i.e. one
\* word above the SP the call found).
C13_CallReturn ==
    [][(ReturnAtCallTarget /\ EngineStep) =>
          /\ vm'.errcode = errNil
          /\ Reg(vm', PC) = TopFrame.pc
          /\ Reg(vm', FP) = TopFrame.fp
          /\ Reg(vm', SP) = IF StackFormCall THEN Add32(TopFrame.sp, varchBytes)
                           ELSE TopFrame.sp]_vars

\* an unprivileged stack-address call inside the window has returned
C13_Witness ==
    /\ prog.fam = "call"
    /\ prog.k = "stack"
    /\ prog.n = 1
    /\ last.kind = "exec"
    /\ last.code = returnNoArgs
    /\ last.pre.mode # 0
    /\ vm.errcode = errNil
    /\ Reg(vm, SP) = winMax - varchBytes
    /\ NextInstruction.code = sysintOneArg

\* C14 as stated: a `return n` that completes leaves, at the top of the stack,
\* the n bytes that were at the top of the stack before it, in order, with
\* SP = (FP before the return) + 8 - n and PC, FP the saved values, for every
\* n and stack depth.
C14_Original ==
    [][(AtFetch /\ NextInstruction.code = returnOneArg /\ EngineStep
        /\ vm'.errcode = errNil) =>
          LET n == NextInstruction.arg
          IN  /\ Reg(vm', SP) = Sub32(Add32(Reg(vm, FP), varchBytesx2), n)
              /\ Reg(vm', PC) = MemWord(vm.memory, Reg(vm, FP))
              /\ Reg(vm', FP) = MemWord(vm.memory, Reg(vm, FP) + varchBytes)
              /\ MemReadBytes(vm'.memory, Reg(vm', SP), n)
                    = MemReadBytes(vm.memory, Reg(vm, SP), n)]_vars

\* the operand words the next instruction reads from the stack are there
StackHolds(words) == HasBytes(peekStack(vm), varchBytes * words)

\* the word at depth i of the stack (0 is the top)
StackWord(i) == MemWord(vm.memory, Reg(vm, SP) + varchBytes * i)

\* the next instruction is an integer division or remainder whose divisor,
\* taken from the stack or from the immediate operand, is zero
ZeroDivisorNext ==
    LET ins == NextInstruction
    IN  /\ AtFetch
        /\ \/ /\ ins.code \in {diviNoArgs, remuNoArgs, remsNoArgs}
              /\ StackHolds(2)
              /\ StackWord(1) = 0
           \/ /\ ins.code = rdiviOneArg
              /\ StackHolds(1)
              /\ StackWord(0) = 0
           \/ /\ ins.code \in {remuOneArg, remsOneArg}
              /\ StackHolds(1)
              /\ ins.arg = 0
           \/ /\ ins.code \in {diviOneArg, rdiviTwoArgs}
              /\ ins.arg = 0

\* C15: divi, remu, rems and rdivi, in their stack-operand and immediate
\* forms, raise division-by-zero when the divisor is zero; and a pending
\* division-by-zero whose IVT slot holds 0 ends the run with division-by-zero
\* as its outcome.
C15_DivisionByZero ==
    [][EngineStep =>
          /\ ZeroDivisorNext => (vm'.errcode = errDivisionByZero /\ phase' = "top")
          /\ (vm.errcode = errDivisionByZero /\ PendingSlot = 0) => FaultTerminates]_vars

\* a signed remainder by an immediate zero has ended the run
C15_Witness ==
    /\ prog.fam = "fault"
    /\ prog.k = "rems0i"
    /\ ~prog.h
    /\ phase = "done"
    /\ outcome = errDivisionByZero
    /\ last.kind = "exc_term"

\* the (arg-count, opcode) tags the switch of execInstructions has a case for
InterpretedTags ==
    {nopNoArgs, byteOneArg, constOneArg, loadOneArg, storeOneArg, kstoreOneArg,
     loadp8NoArgs, loadp16NoArgs, loadp32NoArgs, loadp8OneArg, loadp16OneArg,
     loadp32OneArg, storep8NoArgs, storep16NoArgs, storep32NoArgs, storep8OneArg,
     storep16OneArg, storep32OneArg, pushNoArgs, pushOneArg, popNoArgs, popOneArg,
     addiNoArgs, addiOneArg, addfNoArgs, addfOneArg, subiNoArgs, subiOneArg,
     subfNoArgs, subfOneArg, muliNoArgs, muliOneArg, mulfNoArgs, mulfOneArg,
     diviNoArgs, diviOneArg, divfNoArgs, divfOneArg, remuNoArgs, remuOneArg,
     remsNoArgs, remsOneArg, remfNoArgs, remfOneArg, notNoArgs, andNoArgs,
     andOneArg, orNoArgs, orOneArg, xorNoArgs, xorOneArg, shiftLNoArgs,
     shiftLOneArg, shiftRNoArgs, shiftROneArg, jmpNoArgs, jmpOneArg, jzNoArgs,
     jzOneArg, jnzNoArgs, jnzOneArg, jleNoArgs, jleOneArg, jlNoArgs, jlOneArg,
     jgeNoArgs, jgeOneArg, jgNoArgs, jgOneArg, cmpuNoArgs, cmpsNoArgs, cmpfNoArgs,
     callNoArgs, callOneArg, returnNoArgs, returnOneArg, sysintOneArg, resumeNoArgs,
     writeTwoArgs, raddiOneArg, raddiTwoArgs, raddfOneArg, raddfTwoArgs,
     rsubiOneArg, rsubiTwoArgs, rsubfOneArg, rsubfTwoArgs, rmuliOneArg,
     rmuliTwoArgs, rmulfOneArg, rmulfTwoArgs, rdiviOneArg, rdiviTwoArgs,
     rdivfOneArg, rdivfTwoArgs, rshiftLOneArg, rshiftLTwoArgs, rshiftROneArg,
     rshiftRTwoargs, srLoadOneArg, srStoreOneArg, haltNoArgs}

\* the next instruction's tag is not in the closed set
UnknownTagNext ==
    /\ AtFetch
    /\ NextInstruction.code \notin InterpretedTags

\* the next instruction is a `sysint a` the caller may issue, whose slot holds 0
UnconfiguredSysintNext ==
    LET ins == NextInstruction
    IN  /\ AtFetch
        /\ ins.code = sysintOneArg
        /\ ins.arg >= 0
        /\ ins.arg <= heapSizeBytes - varchBytes
        /\ (ins.arg >= restrictedInterruptsAddrRange \/ Reg(vm, MODE) = 0)
        /\ MemWord(vm.memory, ins.arg) = 0

\* C16: fetching an instruction whose tag is not in the closed set, or
\* executing `sysint a` when the slot at a holds 0, raises unknown-instruction
\* and enters no handler for the instruction itself (nothing but the pending
\* error and the advanced PC changes); and a pending unknown-instruction whose
\* IVT slot holds 0 ends the run with unknown-instruction as its outcome.
C16_UnknownInstruction ==
    [][EngineStep =>
          /\ (UnknownTagNext \/ UnconfiguredSysintNext) =>
                /\ vm' = [vm EXCEPT !.errcode = errUnknownInstruction,
                                    !.registers[PC] = Add32(@, instructionBytes)]
                /\ frames' = frames
                /\ phase' = "top"
          /\ (vm.errcode = errUnknownInstruction /\ PendingSlot = 0) => FaultTerminates]_vars

\* a sysint to an unconfigured slot has ended the run
C16_Witness ==
    /\ prog.fam = "fault"
    /\ prog.k = "sysint0"
    /\ ~prog.h
    /\ phase = "done"
    /\ outcome = errUnknownInstruction
    /\ last.kind = "exc_term"
    /\ frames = << >>

\* the next instruction is a character-read request (`write 3 4`) that reaches
\* the console while its request queue holds its full capacity of requests
OverflowingReadNext ==
    /\ AtFetch
    /\ IsDeviceCall(vm, NextInstruction)
    /\ NextInstruction.register = 3
    /\ NextInstruction.arg = 4
    /\ ~WritePre(vm, 3).m.panicked
    /\ Len(console.queue) = charRequestsCapacity

\* C17: a character-read request issued while the console's request queue
\* holds its full capacity (32) of unserved requests is not enqueued; the
\* console posts exactly one response, carrying the request's id and an I/O
\* error, to the bus; and the instruction then pushes status busy (2).
C17_OverflowBusy ==
    [][EngineStep =>
          /\ OverflowingReadNext =>
                /\ phase' = "busSend"
                /\ pending' = [kind |-> "overflow", id |-> StackWord(0)]
                /\ UNCHANGED << console, bus, busCount >>
          /\ phase = "busSend" =>
                /\ pending.kind = "overflow"
                /\ bus' = Append(bus, NewResponse(consoleSlot, pending.id, << >>, errIO))
                /\ phase' = "busCount"
                /\ UNCHANGED << console, busCount >>
          /\ phase = "busCount" =>
                /\ busCount' = busCount + 1
                /\ phase' = "top"
                /\ vm'.errcode = errNil
                /\ Reg(vm', SP) = Sub32(Reg(vm, SP), varchBytes)
                /\ MemWord(vm'.memory, Reg(vm', SP)) = StatusDeviceBusy
                /\ UNCHANGED << console, bus >>]_vars

\* a read request has been refused with status busy and its I/O error is on
\* the bus
C17_Witness ==
    /\ last.kind = "exec"
    /\ last.code = writeTwoArgs
    /\ last.opreg = 3
    /\ last.oparg = 4
    /\ phase = "top"
    /\ MemWord(vm.memory, Reg(vm, SP)) = StatusDeviceBusy
    /\ Len(console.queue) = charRequestsCapacity
    /\ bus = << NewResponse(consoleSlot, 9, << >>, errIO) >>
    /\ busCount = 1

\* the engine step that completes the power controller's restart command:
\* the last device has been reset and the write pushes its status
RestartCompletes == phase = "ioLock" /\ pending.kind = "restart" /\ EngineStep

\* C18 as stated: when `write 1 2` completes, PC = reserved_bytes, FP and SP
\* are re-initialised from the top of memory, the mode is privileged, no error
\* is pending, every IVT slot is 0, and the devices have been reset (the MMU
\* window is the whole memory, the console's reset flag is set).
C18_Original ==
    [][RestartCompletes =>
          /\ Reg(vm', PC) = reservedBytes
          /\ Reg(vm', FP) = heapSizeBytes
          /\ Reg(vm', SP) <= heapSizeBytes
          /\ Reg(vm', SP) >= heapSizeBytes - varchBytesx3
          /\ Reg(vm', MODE) = 0
          /\ vm'.errcode = errNil
          /\ SegmentAgreesIn(vm')
          /\ vm'.mmu = [minHeapAddr |-> 0, maxHeapAddr |-> heapSizeBytes]
          /\ console'.reset
          /\ \A x \in 0..(interruptsAddrRange - 1) : MemRead(vm'.memory, x) = 0]_vars

\* C19 as stated: the program restarted by `write 1 2` finds, at its first
\* instruction, the stack of a fresh boot: the SP and the two boot words of
\* the machine NewVirtualMachine builds for the same program.
C19_Original ==
    [][RestartCompletes =>
          LET boot == NewVirtualMachine(ProgramText(prog))
          IN  /\ Reg(vm', PC) = Reg(boot, PC)
              /\ Reg(vm', SP) = Reg(boot, SP)
              /\ Reg(vm', SP) = heapSizeBytes - varchBytesx2
              /\ MemReadBytes(vm'.memory, Reg(vm', SP), varchBytesx2)
                    = MemReadBytes(boot.memory, Reg(boot, SP), varchBytesx2)]_vars

\* C20 as stated: at the first instruction of a run SP = mem_size - 8, the
\* word at the top of the stack is the reserved-bytes base (256) and the word
\* directly below it is the image byte count.
C20_Original ==
    last.kind = "boot" =>
        /\ Reg(vm, SP) = heapSizeBytes - varchBytesx2
        /\ StackWord(0) = reservedBytes
        /\ StackWord(1) = instructionBytes * Len(ProgramText(prog))

\* the timer goroutine posts its response on the bus
TimerPosts == timer.pc = "send" /\ timer'.pc = "count"

\* an arm with another interaction id has been accepted by TrySend and waits
\* in timerChan
LaterArmAccepted ==
    \E i \in DOMAIN timer.chan : timer.chan[i].finite /\ timer.chan[i].iid # timer.iid

\* C21: once the timer has been armed again, the earlier arm produces no
\* response: the timer goroutine posts nothing carrying the earlier arm's
\* interaction id while the later arm has been accepted.
C21_Original == [][TimerPosts => ~LaterArmAccepted]_vars

\* the message of systemTimer.Reset (sent by reset and by close) waits in
\* timerChan: the call has returned
CancelAccepted == \E i \in DOMAIN timer.chan : ~timer.chan[i].finite

\* C22: once reset or close of the system timer has returned, the timer
\* goroutine posts no response for a timer armed before the call.
C22_Original == [][TimerPosts => ~CancelAccepted]_vars

\* the console reader posts a character response on the bus
ConsolePosts == console.pc = "send" /\ console'.pc = "count"

\* C23: after the console's reset, no character response is posted for a
\* read request that was enqueued before the reset.
C23_Original == [][ConsolePosts => console.iid \notin console.stale]_vars

\* the machine m is parked: privileged, no pending exception, and the
\* instruction at its PC is `halt`
ParkedAt(m) ==
    /\ Reg(m, MODE) = 0
    /\ m.errcode = errNil
    /\ FetchOk(m)
    /\ decodeInstruction(m.memory, Reg(m, PC)).code = haltNoArgs

Parked == ParkedAt(vm) /\ phase \in {"top", "fetch"}

DevicesUnchanged == UNCHANGED << bus, busCount, timer, console >>

\* the machine m is what the parked vm became after leaving the halt: a
\* pending exception or another PC
LeftHalt(m) == m.errcode # errNil \/ Reg(m, PC) # Reg(vm, PC)

\* executing the halt, or polling an empty bus, changes nothing but the
\* engine's position in its loop
ParkedSpins ==
    (EngineStep /\ Parked /\ (phase = "fetch" \/ busCount = 0))
       => /\ vm' = vm
          /\ phase' = (IF phase = "fetch" THEN "top" ELSE "fetch")
          /\ DevicesUnchanged
          /\ UNCHANGED << frames, outcome >>

\* the parked engine holds a response it has taken from the bus
ParkedReceived == EngineStep /\ ParkedAt(vm) /\ phase = "busReceived"

\* a ready response is received by the parked engine's next step, which
\* takes it from the bus; on the step that completes the receive the engine
\* leaves the halt when the response carries a device error or its IVT slot
\* holds a handler, and the response is dropped with the machine unchanged
\* when the slot is 0
ParkedReceives(m) ==
    /\ (EngineStep /\ Parked /\ phase = "top" /\ busCount > 0)
          => /\ bus' = Tail(bus)
             /\ pending'.resp = Head(bus)
             /\ phase' = "busReceived"
             /\ m = vm
    /\ ParkedReceived
          => LET resp == pending.resp
                 handlerAddr == MemWord(vm.memory, resp.interruptAddr)
             IN  /\ busCount' = busCount - 1
                 /\ IF resp.deviceErr # errNil THEN m.errcode = resp.deviceErr
                    ELSE IF handlerAddr = 0 THEN m = vm
                    ELSE /\ LeftHalt(m)
                         /\ m.errcode = errNil => Reg(m, PC) = handlerAddr

\* C24 (amended): a CPU parked on a privileged halt changes no state, and
\* the step after a device response arrives receives it and leaves the halt
\* when the response carries a device error or its IVT slot holds a handler;
\* a response whose slot holds 0 is dropped and the CPU stays parked.
C24_ParkedHalt == [][ParkedSpins /\ ParkedReceives(vm')]_vars

\* C24 as stated: the parked CPU leaves the halt whenever any device
\* response arrives.
C24_Original ==
    [][ParkedReceived => LeftHalt(vm')]_vars

\* the timer's response found the CPU parked on the halt and entered the
\* handler installed in slot 0
C24_Witness ==
    /\ last.kind = "dev_entry"
    /\ decodeInstruction(vm.memory, last.pre.pc).code = haltNoArgs
    /\ last.pre.mode = 0
    /\ frames # << >>
    /\ frames[Len(frames)].pc = last.pre.pc
    /\ Reg(vm, PC) = MemWord(vm.memory, timerSlot)

\* the next instruction is a privileged status query `write p 1` of a port
\* of the device array, with the interaction id, the byte count and the
\* payload on the stack
StatusQueryNext ==
    LET ins == NextInstruction
    IN  /\ AtFetch
        /\ Reg(vm, MODE) = 0
        /\ ins.code = writeTwoArgs
        /\ ins.arg = 1
        /\ ins.register \in 0..(maxHWDevices - 1)
        /\ StackHolds(2)
        /\ StackWord(1) >= 0
        /\ Reg(vm, SP) + varchBytesx2 + StackWord(1) <= heapSizeBytes

\* the machine a status query leaves behind: id, count and payload popped,
\* the status word pushed, the PC at the next instruction
AfterStatusQuery(status) ==
    LET sp1 == Reg(vm, SP) + varchBytesx2 + StackWord(1) - varchBytes
    IN  [vm EXCEPT !.registers[PC] = Reg(vm, PC) + instructionBytes,
                   !.registers[SP] = sp1,
                   !.memory = MemWriteBytes(vm.memory, sp1, uint32ToBytes(status))]

\* C25: a privileged `write p 1` pops the interaction id, the byte count
\* and the payload and pushes 1 (ready) for the populated ports 0..3 and 0
\* (not found) for the ports 4..15; no device, bus or MMU state changes.
C25_StatusQuery ==
    [][(EngineStep /\ StatusQueryNext)
          => /\ vm' = AfterStatusQuery(IF NextInstruction.register <= 3 THEN 1 ELSE 0)
             /\ phase' = "top"
             /\ DevicesUnchanged
             /\ UNCHANGED << pending, outcome, frames >>]_vars

\* a status query of an unpopulated port has pushed 0 over the last payload
\* byte positions, and one of a populated port has pushed 1
C25_Witness ==
    /\ prog.fam = "status"
    /\ last.kind = "exec"
    /\ last.code = writeTwoArgs
    /\ last.oparg = 1
    /\ last.opreg = maxHWDevices - 1
    /\ Reg(vm, SP) = last.pre.sp + varchBytesx2
    /\ StackWord(0) = StatusDeviceNotFound

\* the general registers: every public register but PC, SP and FP
GeneralRegisters == (FP + 1)..(numRegisters - 1)

\* the dispatch uses r only to index the register file: on the states of the
\* `regs` programs every general register is tried, elsewhere both ends of
\* the range
ProbedRegisters ==
    IF prog.fam = "regs" THEN GeneralRegisters
    ELSE {FP + 1, FP + 2, numRegisters - 1}

\* `rkstore r` followed by `pop 4`, and `rstore r`, dispatched on machine m
KstoreThenPop(m, r) == Exec(Exec(m, kstoreOneArg, r, 0), popOneArg, 0, varchBytes)
StoreOnly(m, r) == Exec(m, storeOneArg, r, 0)

\* C26: with at least 4 bytes on the stack, `rkstore r; pop 4` leaves the
\* same registers, stack pointer and memory as `rstore r`, for every general
\* register r >= 3 (neither sequence faults).
C26_KstorePop ==
    (phase = "fetch" /\ StackHolds(1))
       => \A r \in ProbedRegisters :
             LET stored == StoreOnly(vm, r)
             IN  /\ KstoreThenPop(vm, r) = stored
                 /\ ~stored.panicked
                 /\ Reg(stored, r) = StackWord(0)
                 /\ Reg(stored, SP) = Reg(vm, SP) + varchBytes

\* a program has run `rkstore 31; pop 4` on a stack of exactly one word
C26_Witness ==
    /\ prog = Prog("regs", "kstore", 1, FALSE)
    /\ last.kind = "exec"
    /\ last.code = popOneArg
    /\ Reg(vm, numRegisters - 1) = reservedBytes
    /\ Reg(vm, SP) = heapSizeBytes
    /\ vm.errcode = errNil

\* the conditional jumps, without and with the target as immediate operand
CondJumpsNoArgs == {jzNoArgs, jnzNoArgs, jleNoArgs, jlNoArgs, jgeNoArgs, jgNoArgs}
CondJumpsOneArg == {jzOneArg, jnzOneArg, jleOneArg, jlOneArg, jgeOneArg, jgOneArg}

\* the condition of each conditional jump on the signed condition value
CondHolds(code, value) ==
    CASE code \in {jzNoArgs, jzOneArg} -> value = 0
      [] code \in {jnzNoArgs, jnzOneArg} -> value # 0
      [] code \in {jleNoArgs, jleOneArg} -> value <= 0
      [] code \in {jlNoArgs, jlOneArg} -> value < 0
      [] code \in {jgeNoArgs, jgeOneArg} -> value >= 0
      [] code \in {jgNoArgs, jgOneArg} -> value > 0

\* the next instruction is a conditional jump whose operands are on the stack
CondJumpNext ==
    /\ AtFetch
    /\ \/ NextInstruction.code \in CondJumpsNoArgs /\ StackHolds(2)
       \/ NextInstruction.code \in CondJumpsOneArg /\ StackHolds(1)

\* the machine after the conditional jump at the PC of vm
AfterCondJump ==
    LET ins    == NextInstruction
        imm    == ins.code \in CondJumpsOneArg
        target == IF imm THEN ins.arg ELSE StackWord(0)
        value  == IF imm THEN StackWord(0) ELSE StackWord(1)
    IN  [vm EXCEPT !.registers[SP] = Reg(vm, SP) + (IF imm THEN varchBytes ELSE varchBytesx2),
                   !.registers[PC] = IF CondHolds(ins.code, value) THEN target
                                     ELSE Reg(vm, PC) + instructionBytes]

\* C27: a conditional jump without an immediate pops the target (top word)
\* and the condition value (next word), SP + 8, taken or not; with an
\* immediate it pops only the condition value, SP + 4, and the immediate is
\* the target; the PC becomes the target iff the condition holds and the
\* next instruction otherwise; nothing else changes.
C27_ConditionalJump ==
    [][(EngineStep /\ CondJumpNext)
          => vm' = AfterCondJump /\ phase' = "top" /\ DevicesUnchanged]_vars

\* a `jle` in stack form has been taken on the value -1: both words popped,
\* the PC at the target that was on top of the stack
C27_Witness ==
    /\ prog = Prog("cjump", "jle", 1, FALSE)
    /\ last.kind = "exec"
    /\ last.code = jleNoArgs
    /\ Reg(vm, SP) = last.pre.sp + varchBytesx2
    /\ Reg(vm, PC) = Addr(7)
    /\ last.at + instructionBytes # Addr(7)

\* ------------------------------------------------------------------------
\* Labels (assembler and machine factory)
\* ------------------------------------------------------------------------
\* What each line of the pool is, read off the text of the pool: the label
\* it defines, the label it refers to, the opcode of what it emits and how
\* many instructions it emits when a label emits none
PoolLabels ==
    << << >>, << >>, << "a" >>, << "b" >>, << >>, << >>, << >>, << >>,
       << "2", "6", "4" >>, << >>, << "x" >> >>
PoolReferences ==
    << << >>, << >>, << >>, << >>, << "a" >>, << "b" >>, << >>, << >>,
       << >>, << "x" >>, << >> >>
PoolOpcodes == << Nop, Nop, Nop, Nop, Const, Jmp, Byte, Byte, Nop, Jmp, Nop >>
PoolEmitted == << 0, 0, 0, 0, 1, 1, 2, 2, 0, 1, 0 >>

IsLabelLine(k) == PoolLabels[k] # << >>

EmittedBy(k, labelsEmit) == IF IsLabelLine(k) /\ labelsEmit THEN 1 ELSE PoolEmitted[k]

\* the number of instructions emitted by the lines before line j
RECURSIVE EmittedBefore(_, _, _)
EmittedBefore(pick, j, labelsEmit) ==
    IF j <= 1 THEN 0
    ELSE EmittedBefore(pick, j - 1, labelsEmit) + EmittedBy(pick[j - 1], labelsEmit)

ExpectedLabelAddress(pick, j, labelsEmit) ==
    reservedBytes + instructionBytes * EmittedBefore(pick, j, labelsEmit)

AssembledLabels ==
    prog.fam = "asm" /\ prog.k \in {"labels", "addresses"} /\ asm.status = "image"

\* every label of the source is recorded with the expected address, that
\* address is where the machine holds the next emitted instruction, and
\* every reference carries the expected address of a label of that name
LabelsResolve(labelsEmit) ==
    LET pick == asm.pick
        defs == {j \in DOMAIN pick : IsLabelLine(pick[j])}
        refs == {j \in DOMAIN pick : PoolReferences[pick[j]] # << >>}
        emitting(j) == {k \in j..Len(pick) : EmittedBy(pick[k], labelsEmit) > 0}
    IN  /\ Len(asm.labels) = Cardinality(defs)
        /\ \A j \in defs :
              LET n     == EmittedBefore(pick, j, labelsEmit)
                  addr  == ExpectedLabelAddress(pick, j, labelsEmit)
                  entry == asm.labels[Cardinality({d \in defs : d <= j})]
              IN  /\ entry.name = PoolLabels[pick[j]]
                  /\ inputArgToUint32(entry.addr) = [err |-> FALSE, val |-> addr]
                  /\ IF emitting(j) = {} THEN n = Len(asm.instructions)
                     ELSE /\ n < Len(asm.instructions)
                          /\ asm.instructions[n + 1].code % 256
                                = PoolOpcodes[pick[CHOOSE k \in emitting(j) :
                                                       \A x \in emitting(j) : k <= x]]
                  /\ phase = "loaded" =>
                        decodeInstruction(vm.memory, addr)
                           = IF n < Len(asm.instructions) THEN asm.instructions[n + 1]
                             ELSE NewInstruction(0, Nop, 0, 0)
        /\ \A j \in refs :
              LET n == EmittedBefore(pick, j, labelsEmit)
              IN  /\ n < Len(asm.instructions)
                  /\ asm.instructions[n + 1].code % 256 = PoolOpcodes[pick[j]]
                  /\ asm.instructions[n + 1].arg
                        \in {ExpectedLabelAddress(pick, d, labelsEmit) :
                                d \in {x \in defs : PoolLabels[pick[x]] = PoolReferences[pick[j]]}}

\* no label of the source is named by the decimal address of a label
NoLabelNamesAnAddress ==
    \A i, j \in DOMAIN asm.labels : asm.labels[i].name # asm.labels[j].addr

\* C28, the part that holds: when no label is named by the address of a
\* label, every label resolves to reserved_bytes + 8 * (number of
\* instructions emitted before the label), which is the address at which the
\* machine holds the next emitted instruction; a string literal of N bytes
\* counts as N instructions, comments and blank lines count as none, and a
\* label counts as none without debug symbols and as one (its `nop`) with
\* debug symbols.
C28_LabelAddresses ==
    (AssembledLabels /\ NoLabelNamesAnAddress) => LabelsResolve(asm.debug)

\* C28 as stated: every label resolves to that address, with labels
\* counting as no instruction, debug symbols or not.
C28_Original == AssembledLabels => LabelsResolve(FALSE)

\* C28: the source `264:`, `jmp x`, `x:` assembled without debug symbols:
\* x is recorded at 264, the address after the jump, and the jump to x
\* carries 256, the address of the label named 264
C28_Chained ==
    /\ AssembledLabels
    /\ ~asm.debug
    /\ asm.pick = << 9, 10, 11 >>
    /\ asm.labels[2] = [name |-> << "x" >>, addr |-> << "2", "6", "4" >>]
    /\ asm.instructions[1].code % 256 = Jmp
    /\ asm.instructions[1].arg = reservedBytes

\* a machine loaded, without debug symbols, from a source in which a label
\* follows a string literal and is referred to
C28_Witness ==
    /\ AssembledLabels
    /\ phase = "loaded"
    /\ ~asm.debug
    /\ \E j, l, r \in DOMAIN asm.pick :
          /\ j < l
          /\ PoolEmitted[asm.pick[j]] = 2
          /\ IsLabelLine(asm.pick[l])
          /\ PoolReferences[asm.pick[r]] = PoolLabels[asm.pick[l]]
          /\ asm.instructions[EmittedBefore(asm.pick, r, FALSE) + 1].arg
                = reservedBytes + 2 * instructionBytes

\* ------------------------------------------------------------------------
\* Register operands (assembler)
\* ------------------------------------------------------------------------
AssembledRegisters == prog.fam = "asm" /\ prog.k = "regs" /\ phase # "source"

RegisterWriteOpcodes == {Rstore, Rkstore} \cup RegisterArithmetic
RegisterOpcodes == {Rload} \cup RegisterWriteOpcodes

\* the accepted program writes no register below 3 and names no register
\* from 32 on
ProgramRegistersLegal ==
    \A i \in DOMAIN asm.instructions :
       LET instr == asm.instructions[i]
       IN  /\ instr.code % 256 \in RegisterWriteOpcodes => instr.register >= 3
           /\ instr.code % 256 \in RegisterOpcodes => instr.register < numRegisters

\* the source's register line writes register 0, 1 or 2, or names a
\* register from 32 on
SourceRegisterIllegal ==
    \/ asm.pick.code \in RegisterWriteOpcodes /\ asm.pick.reg < 3
    \/ asm.pick.reg >= numRegisters

NoImage == asm.status = "rejected" /\ asm.instructions = << >> /\ phase = "rejected"

\* C29 as stated: every program accepted by the assembler contains no
\* register-write opcode targeting register 0, 1 or 2 and no register opcode
\* with a register index >= 32; a source containing one is rejected and no
\* image is produced.
C29_Original ==
    AssembledRegisters =>
       /\ asm.status = "image" => ProgramRegistersLegal
       /\ SourceRegisterIllegal => NoImage

\* C29, the part that holds: the instructions of an accepted program obey
\* the register rule, and a source whose register operand, cut to its low 16
\* bits, breaks the rule is rejected without an image.
C29_RegisterFields ==
    AssembledRegisters =>
       /\ asm.status = "image" => ProgramRegistersLegal
       /\ (\/ asm.pick.code \in RegisterWriteOpcodes /\ asm.pick.reg % 65536 < 3
           \/ asm.pick.reg % 65536 >= numRegisters) <=> NoImage

\* a source rejected for writing the frame pointer, and nothing loaded
C29_Witness ==
    /\ AssembledRegisters
    /\ asm.pick.code = Rkstore
    /\ asm.pick.reg = FP
    /\ NoImage

\* ------------------------------------------------------------------------
\* Responses that carry a device error
\* ------------------------------------------------------------------------
\* the engine receives a response that carries a device error
ReceivesDeviceError ==
    /\ EngineStep
    /\ phase = "busReceived"
    /\ pending.resp.deviceErr # errNil

\* the engine's step after such a receive
ResolvesDeviceError == EngineStep /\ last.kind = "dev_err"

\* the resolution of a pending fault m.errcode, as for an instruction fault:
\* the program ends with the fault when its IVT slot is 0 or it has none,
\* otherwise the handler is entered with the error flag reset (or the entry
\* itself faults and the iteration restarts)
FaultResolved(m) ==
    IF PendingSlot = 0
    THEN phase' = "done" /\ outcome' = vm.errcode /\ m = vm /\ frames' = frames
    ELSE \/ /\ last'.kind = "exc_entry"
            /\ m = exceptionEntry(vm, PendingSlot)
            /\ m.errcode = errNil
            /\ Reg(m, PC) = PendingSlot
            /\ phase' = "fetch"
            /\ frames' = Append(frames, Frame("exception", vm, 0))
         \/ /\ last'.kind = "exc_retry"
            /\ m = Recover(exceptionEntry(vm, PendingSlot))
            /\ phase' = "top"
            /\ frames' = frames

DeviceErrorReceived(m) ==
    /\ ReceivesDeviceError
          => /\ m = [vm EXCEPT !.errcode = pending.resp.deviceErr]
             /\ busCount' = busCount - 1
             /\ frames' = frames
             /\ phase' = "top"
             /\ outcome' = outcome
             /\ last'.kind = "dev_err"
    /\ ResolvesDeviceError
          => /\ vm.errcode # errNil
             /\ FaultResolved(m)

\* C30: when the response received from the bus carries a device error, the
\* engine sets that error as the pending exception, enters no handler and
\* pushes no response data (registers and memory stay as they were); the
\* restarted iteration resolves the error like an instruction fault: the
\* program ends with the I/O error when no handler is installed, and the
\* installed handler is entered otherwise.
C30_DeviceError == [][DeviceErrorReceived(vm')]_vars

\* the engine has just received the console's I/O error with no handler
\* installed for it
C30_Witness ==
    /\ last.kind = "dev_err"
    /\ phase = "top"
    /\ vm.errcode = errIO
    /\ PendingSlot = 0

\* ------------------------------------------------------------------------
\* Entry to a device handler
\* ------------------------------------------------------------------------
\* machine m has just entered the handler of response resp from the
\* registers of machine m0
DeviceHandlerEntered(m0, m, resp) ==
    LET n  == Len(resp.data)
        sp == Reg(m, SP)
        fp == Reg(m, FP)
    IN  /\ sp = Sub32(Sub32(fp, varchBytesx2), n)
        /\ MemWord(m.memory, sp) = resp.id
        /\ MemWord(m.memory, Add32(sp, varchBytes)) = n
        /\ \A i \in 1..n : MemRead(m.memory, sp + varchBytesx2 + (i - 1)) = resp.data[i]
        /\ MemWord(m.memory, fp) = Reg(m0, PC)
        /\ MemWord(m.memory, Add32(fp, varchBytes)) = Reg(m0, SP)
        /\ MemWord(m.memory, Add32(fp, varchBytesx2)) = Reg(m0, FP)
        /\ MemWord(m.memory, Add32(fp, varchBytesx3)) = Reg(m0, MODE)
        /\ Reg(m, PC) = MemWord(m0.memory, resp.interruptAddr)
        /\ Reg(m, PC) # 0

\* the engine's step enters a device handler
EntersDeviceHandler == EngineStep /\ last'.kind = "dev_entry"

DeviceEntryLayout(m) ==
    EntersDeviceHandler => (phase = "busReceived" /\ DeviceHandlerEntered(vm, m, pending.resp))

\* C31: on entry to a device handler for a response with interaction id i
\* and n data bytes, SP = FP - 8 - n, the word at SP is i, the word at SP+4
\* is n, the bytes at [SP+8, SP+8+n) are the response data in order, the
\* saved frame (PC, SP, FP, mode) starts at FP, and PC is the handler address
\* read from the device's IVT slot.
C31_DeviceEntry == [][DeviceEntryLayout(vm')]_vars

\* the handler of a character response has been entered: four data bytes
\* lie under the saved frame
C31_Witness ==
    /\ last.kind = "dev_entry"
    /\ Reg(vm, SP) = Sub32(Reg(vm, FP), varchBytesx3)
    /\ MemWord(vm.memory, Add32(Reg(vm, SP), varchBytes)) = varchBytes
    /\ MemRead(vm.memory, Reg(vm, SP) + varchBytesx2) \in Runes

\* ------------------------------------------------------------------------
\* Responses whose IVT slot is 0
\* ------------------------------------------------------------------------
\* the engine receives an error-free response whose IVT slot is 0
ReceivesUnhandled ==
    /\ EngineStep
    /\ phase = "busReceived"
    /\ pending.resp.deviceErr = errNil
    /\ MemWord(vm.memory, pending.resp.interruptAddr) = 0

\* the engine's step after the response was dropped
DispatchesAfterDrop == EngineStep /\ last.kind = "dev_drop"

\* the step dispatches the instruction at PC of the machine as it is: m is
\* the machine after the step
DispatchedAtPC(m) ==
    /\ phase = "fetch"
    /\ last'.at = Reg(vm, PC)
    /\ IF ~FetchOk(vm)
       THEN last'.kind = "fetch_trap" /\ m = Recover(Panicked(vm))
       ELSE /\ last'.kind \in {"exec", "write_wait"}
            /\ last'.code = NextInstruction.code
            /\ last'.opreg = NextInstruction.register
            /\ last'.oparg = NextInstruction.arg
            /\ (~IsDeviceCall(vm, NextInstruction)
                  \/ IsSyncDeviceCall(NextInstruction.register, NextInstruction.arg))
                  => m = Recover(Dispatch(SetReg(vm, PC, Add32(Reg(vm, PC), instructionBytes)),
                                          NextInstruction, Reg(vm, MODE) = 0))

ResponseDropped(m) ==
    /\ ReceivesUnhandled
          => /\ m = vm
             /\ busCount' = busCount - 1
             /\ frames' = frames
             /\ outcome' = outcome
             /\ phase' = "fetch"
             /\ last'.kind = "dev_drop"
    /\ DispatchesAfterDrop => DispatchedAtPC(m)

\* C32: when the engine receives an error-free device response whose IVT
\* slot is 0, the response is discarded without any change to PC, SP, FP,
\* mode, stack or memory (the machine is unchanged), and the engine's next
\* step dispatches the instruction at PC as it does when no response has
\* arrived.
C32_ResponseDropped == [][ResponseDropped(vm')]_vars

\* a timer response was dropped and the instruction at PC, the `halt` the
\* program is parked on, has been dispatched
C32_Witness ==
    /\ prog.fam = "timer"
    /\ prog.k = "unhandled"
    /\ last.kind = "exec"
    /\ last.code = haltNoArgs
    /\ bus = << >>
    /\ timer.iid # 0
    /\ busCount = 0
    /\ MemWord(vm.memory, timerSlot) = 0
    /\ Reg(vm, PC) = last.at

\* ------------------------------------------------------------------------
\* Handler entries that fault
\* ------------------------------------------------------------------------
\* the engine's latest step was a handler lookup whose interrupt entry trapped
EntryFaulted == last.kind = "exc_retry"

\* the engine step gives up: the run terminates with the pending fault
GivesUp == phase' = "done" /\ outcome' = vm.errcode /\ last'.kind = "exc_term"

\* C33: if entering an exception handler itself faults, the engine retries
\* the handler lookup at most once and then gives up: once the retried lookup
\* has trapped too, the engine's next step terminates the run.
C33_Original == [][(EngineStep /\ EntryFaulted /\ retries >= 2) => GivesUp]_vars

\* the handler lookup has trapped a third time in a row
C33_Witness == EntryFaulted /\ retries = 3 /\ vm.errcode # errNil /\ phase = "top"

\* ------------------------------------------------------------------------
\* Single-stepping (RunProgramDebugMode)
\* ------------------------------------------------------------------------
\* C34: each call of execInstructions(singleStep = true) that does not end
\* the run executes exactly one program instruction before it returns: a
\* call that has returned true has dispatched one instruction.
C34_Original == (call.single /\ call.returned) => call.executed = 1

\* a single-step call has returned after dispatching a faulting instruction
\* and the first instruction of the fault's handler
C34_Witness ==
    /\ call.single
    /\ call.returned
    /\ call.executed = 2
    /\ frames # << >>
    /\ frames[Len(frames)].kind = "exception"

\* a single-step call has returned without dispatching any instruction: the
\* handler entry it began with trapped
C34_NoInstruction == call.single /\ call.returned /\ call.executed = 0 /\ last.kind = "exc_retry"

\* ------------------------------------------------------------------------
\* The operand of sysint
\* ------------------------------------------------------------------------
\* a is the address of a public IVT slot
IsPublicSlot(a) ==
    /\ a >= restrictedInterruptsAddrRange
    /\ a < interruptsAddrRange
    /\ a % varchBytes = 0

\* the engine step executes a `sysint` issued by unprivileged code and
\* enters a handler: no fault is raised and the machine m it leaves is
\* privileged
UserSysintEnters(m) ==
    /\ EngineStep
    /\ AtFetch
    /\ NextInstruction.code = sysintOneArg
    /\ Reg(vm, MODE) # 0
    /\ m.errcode = errNil
    /\ Reg(m, MODE) = 0

\* C35: a `sysint a` whose operand is not the address of an IVT slot
\* (a >= 256, or a not a multiple of 4) never enters a handler: every
\* privileged handler entered from unprivileged code through `sysint a` has
\* a the address of a public IVT slot and starts at the address stored there.
C35_Original ==
    [][UserSysintEnters(vm') =>
          /\ IsPublicSlot(NextInstruction.arg)
          /\ Reg(vm', PC) = MemWord(vm.memory, NextInstruction.arg)]_vars

\* unprivileged code has entered privileged execution at the address it
\* pushed on its own stack
C35_Witness ==
    /\ SysintEntered
    /\ last.pre.mode # 0
    /\ Reg(vm, MODE) = 0
    /\ last.oparg = winMax - varchBytes
    /\ Reg(vm, PC) = MemWord(vm.memory, winMax - varchBytes)
    /\ NextInstruction = K(9)

\* ------------------------------------------------------------------------
\* The engine's calls into the system timer
\* ------------------------------------------------------------------------
\* the engine thread is inside TrySend (arm), Reset or Close of the timer,
\* at the send on the full timerChan
EngineWaitsOnTimer == phase = "timerSend" /\ Len(timer.chan) = timerChanCapacity

\* the timer goroutine will never receive from timerChan again: it has
\* returned, or it is blocked posting to the full bus, which only the engine
\* thread empties
TimerNeverReceives ==
    \/ timer.pc = "exited"
    \/ timer.pc = "send" /\ Len(bus) = busCapacity

\* C36: every call the engine thread makes into the system timer (arm,
\* reset on restart, close on poweroff) returns under every interleaving:
\* the engine is never waiting on the full arm channel when the worker has
\* exited or is itself blocked posting to the bus.
C36_Original == ~(EngineWaitsOnTimer /\ TimerNeverReceives)

\* poweroff hangs in Close: the worker saw `closed` and returned while the
\* arm channel still held the program's earlier arm
C36_Witness ==
    /\ EngineWaitsOnTimer
    /\ pending.kind = "poweroff"
    /\ timer.pc = "exited"
    /\ Head(timer.chan).finite

\* the state is final for the engine: no step of any thread changes it once
\* the call hangs
C36_HangIsFinal ==
    [][(EngineWaitsOnTimer /\ TimerNeverReceives) =>
          (EngineWaitsOnTimer /\ TimerNeverReceives)' /\ ~EngineStep]_vars

\* ------------------------------------------------------------------------
\* Stores that fault
\* ------------------------------------------------------------------------
\* the next instruction is a storep16 or storep32
AtWideStore ==
    /\ AtFetch
    /\ NextInstruction.code \in {storep16NoArgs, storep16OneArg, storep32NoArgs, storep32OneArg}

\* C37: a storep16 or storep32 that raises segmentation fault because part
\* of its target byte range lies outside the active segment writes none of
\* its bytes: memory is unchanged by a faulting store.
C37_Original ==
    [][(AtWideStore /\ EngineStep /\ vm'.errcode = errSegmentationFault)
          => vm'.memory = vm.memory]_vars

\* a storep32 at the last three bytes of the unprivileged window has faulted
\* with those three bytes written
C37_Witness ==
    /\ last.kind = "exec"
    /\ last.code = storep32NoArgs
    /\ last.err = errNil
    /\ vm.errcode = errSegmentationFault
    /\ prog.fam = "pointer"
    /\ AccessAddrs[prog.n] = winMax - 3
    /\ MemRead(vm.memory, winMax - 3) = MemRead(vm.memory, last.pre.sp + varchBytes)
    /\ MemRead(vm.memory, winMax - 3) # 0

\* ------------------------------------------------------------------------
\* Read requests after a console reset
\* ------------------------------------------------------------------------
\* the console reader drops the request it holds because it finds the reset
\* flag set (isResetOrClosed returns true with the device not closed)
ConsoleDiscardsOnReset ==
    /\ console.pc \in {"check", "lock"}
    /\ console'.pc = "recv"
    /\ console.reset
    /\ ~console.closed

\* C38: a character-read request enqueued after the console's reset has
\* returned is never discarded because of that earlier reset: every request
\* the reader drops on the reset flag was pending when the reset was made.
C38_Original == [][ConsoleDiscardsOnReset => console.iid \in console.stale]_vars

\* the request made after the restart has been dropped: the reader is back
\* at its receive, the queue is empty and nothing was posted for it
C38_Witness ==
    /\ prog.k = "readafter"
    /\ console.pc = "recv"
    /\ console.iid = 9
    /\ console.queue = << >>
    /\ ~console.reset
    /\ ~console.closed
    /\ console.stale = {}
    /\ bus = << >>
    /\ busCount = 0
    /\ last.kind = "exec"
    /\ last.code = haltNoArgs

\* ------------------------------------------------------------------------
\* The PC saved for a fault handler
\* ------------------------------------------------------------------------
\* the engine step enters the handler of the fault that the instruction
\* dispatched by the engine's previous step raised
FaultHandlerEntered ==
    /\ EngineStep
    /\ last.kind = "exec"
    /\ vm.errcode # errNil
    /\ last'.kind = "exc_entry"

\* the PC saved in the frame of the handler machine m has just entered
SavedPC(m) == MemWord(m.memory, Reg(m, FP))

\* the engine step executes the `resume` of a fault handler whose frame
\* still holds the PC saved at the entry, and the resume does not fault
FaultHandlerResumes ==
    /\ EngineStep
    /\ AtFetch
    /\ NextInstruction.code = resumeNoArgs
    /\ Reg(vm, MODE) = 0
    /\ frames # << >>
    /\ frames[Len(frames)].kind = "exception"
    /\ SavedPC(vm) = frames[Len(frames)].pc
    /\ vm'.errcode = errNil

\* C39: when an instruction faults and a handler is installed for that
\* fault, the PC saved in the handler's frame is the address of the
\* instruction following the faulting one, and a handler that executes
\* `resume` continues there.
C39_SavedPC ==
    [][/\ FaultHandlerEntered =>
             /\ SavedPC(vm') = Add32(last.at, instructionBytes)
             /\ frames'[Len(frames')].pc = Add32(last.at, instructionBytes)
       /\ FaultHandlerResumes => Reg(vm', PC) = frames[Len(frames)].pc]_vars

\* the handler of a division by zero has resumed: the engine is about to
\* fetch the instruction after the division
C39_Witness ==
    /\ prog.fam = "fault"
    /\ prog.k = "div0i"
    /\ prog.h
    /\ last.kind = "exec"
    /\ last.code = resumeNoArgs
    /\ vm.errcode = errNil
    /\ frames = << >>
    /\ decodeInstruction(vm.memory, Sub32(Reg(vm, PC), instructionBytes)).code = diviOneArg

\* ------------------------------------------------------------------------
\* The response bus counter
\* ------------------------------------------------------------------------
\* the responses the counter may count: those in the channel, and the one
\* the engine has taken inside Receive and not yet uncounted
Countable == Len(bus) + (IF phase = "busReceived" THEN 1 ELSE 0)

\* the engine is at its poll and Ready() returns true
PollsReady == phase = "top" /\ vm.errcode = errNil /\ busCount > 0

\* C40: under every interleaving of the devices' Send calls with the
\* engine, the bus's pending-response counter is never negative and never
\* counts a response that has not been sent: Ready() returning true implies
\* a response is already in the channel, so the engine's Receive() does not
\* block.
C40_BusCounter ==
    /\ busCount >= 0
    /\ busCount <= Countable
    /\ PollsReady => bus # << >>

\* the engine is inside Receive, between the channel receive and its
\* decrement, and a Send that was waiting for room has completed: the
\* counter counts the response the engine holds and the one in the channel
C40_Witness ==
    /\ phase = "busReceived"
    /\ last.kind = "receive"
    /\ Len(bus) = 1
    /\ busCount = 2
    /\ bus[1] # pending.resp

====
